---- MODULE Spec2Model ----
(***************************************************************************)
(* Verification model of vietnam-journey-bot.                              *)
(*                                                                         *)
(*   ExtractSpec : the Extractor of askJourneyBot (src/src/routes/         *)
(*                 index.tsx, lines 104-183) applied to bounded texts.     *)
(*   ChatSpec    : ChatBox.handleSend and its Normalizer                   *)
(*                 (src/unnamed/part_001).                                 *)
(*   Spec        : MapView, its RenderSync passes, the BoundaryResolver    *)
(*                 and the map engine it drives                            *)
(*                 (src/src/components/Map/MapView.tsx).                   *)
(*   LiveSpec    : Spec with every awaited geocoding call settling.        *)
(*   OtherSpec   : Spec over a second set of destination lists.            *)
(*   CallSpec    : toNumber, normalizeLatLng and the Normalizer, each      *)
(*                 called once on a bounded argument.                      *)
(*                                                                         *)
(* Texts are sequences of one-character strings; "^" stands for the        *)
(* backtick character.                                                     *)
(***************************************************************************)
EXTENDS Integers, Sequences, FiniteSets, TLC

VARIABLES
    \* ---- Extractor (askJourneyBot) ----
    rawText,        \* the reply text
    jsonData,       \* let jsonData
    cleanedText,    \* let cleanedText
    fencedMatches,  \* [...rawText.matchAll(fencedRegex)]
    candidates,     \* balanced regions collected by the fallback
    winner,         \* which block set jsonData last
    xpc,            \* position in askJourneyBot
    \* ---- ChatBox ----
    messages,       \* useState<Msg[]>
    chatLoading,    \* useState loading
    chatError,      \* useState error
    mapData,        \* HomePage's mapData, set through setMapData
    replyJson,      \* the jsonData of the reply handleSend received last
    turns,          \* number of requests sent so far
    \* ---- MapView ----
    points,         \* the points prop
    selectedDay,    \* useState selectedDay
    mapLoading,     \* useState mapLoading, the busy signal
    engineLoaded,   \* what map.current.loaded() answers
    loadFired,      \* the engine has fired its "load" event
    removed,        \* map.current.remove() was called
    listeners,      \* closures registered with mp.once("load", ...)
    passes,         \* the calls of updateMapView, in the order they started
    markers,        \* markers.current
    sources,        \* the sources of the map style
    layers,         \* the layers of the map style
    paint,          \* the colour each outline layer was added with
    outlinesRef,    \* outlinesRef.current
    viewport,       \* the last camera request
    effectPending,  \* a render caused by setSelectedDay has not run its effects
    \* ---- one call of a function of the program ----
    fnName,         \* the function called
    fnArg,          \* its argument
    fnRes,          \* what it returned
    \* ---- the page around MapView ----
    offered         \* the destination lists HomePage may hand to MapView

extVars == <<rawText, jsonData, cleanedText, fencedMatches, candidates, winner, xpc>>

chatVars == <<messages, chatLoading, chatError, mapData, replyJson, turns>>

mapVars == <<points, selectedDay, mapLoading, engineLoaded, loadFired, removed, listeners,
             passes, markers, sources, layers, paint, outlinesRef, viewport, effectPending>>

fnVars == <<fnName, fnArg, fnRes>>

vars == <<extVars, chatVars, mapVars, fnVars, offered>>

\* what a step of one component leaves alone
notExtVars == <<chatVars, mapVars, fnVars, offered>>
notChatVars == <<extVars, mapVars, fnVars, offered>>
notMapVars == <<extVars, chatVars, fnVars, offered>>
notFnVars == <<extVars, chatVars, mapVars, offered>>

\* ------------------------------------------------------------------------
\* Bounds
\* ------------------------------------------------------------------------
MaxPieces == 3

\* requests sent to the assistant
MaxTurns == 2

\* runs of MapView's update effect
MaxPasses == 3

\* destinations listed for one day
MaxListed == 2

\* characters of a text handed to toNumber
MaxChars == 3
MaxResults == 3

\* ------------------------------------------------------------------------
\* Call by value: F(a) and F(a, b) with every argument evaluated once, as a
\* call of the program evaluates it, whatever the number of places F uses it
\* ------------------------------------------------------------------------
Eager1(F(_), a) == CHOOSE r \in {F(x) : x \in {a}} : TRUE
Eager2(F(_, _), a, b) == CHOOSE r \in {F(x, y) : x \in {a}, y \in {b}} : TRUE

\* ------------------------------------------------------------------------
\* Faulty variants of operators of the program, which the claims about them
\* have to tell apart from the originals
\* ------------------------------------------------------------------------
\* clearMarkers that removes nothing
KeepMarkers(ms) == ms

\* a resolver without its try / catch
NoCatch(r) == r

\* an exit of updateMapView that leaves the busy signal as it is
NoFinally(w) == w

\* a normalizeLatLng that never exchanges the two fields
NoSwap(rawLat, rawLng) == [lat |-> rawLat, lng |-> rawLng]

\* a toNumber without its isFinite test
KeepNaN(n) == n

\* ------------------------------------------------------------------------
\* Strings
\* ------------------------------------------------------------------------
WS == {" ", "\n"}

Digits == {"0", "1", "2", "3", "4", "5", "6", "7", "8", "9"}

\* The value JavaScript calls null; JSON.parse("null") returns it too.
JsNull == <<"null">>

\* three backticks; the backtick character is written "^" in this module
Fence == <<"^", "^", "^">>

RECURSIVE SkipWs(_, _)
SkipWs(s, i) ==
    IF i <= Len(s) /\ s[i] \in WS THEN SkipWs(s, i + 1) ELSE i

RECURSIVE SkipWsBack(_, _)
SkipWsBack(s, i) ==
    IF i >= 1 /\ s[i] \in WS THEN SkipWsBack(s, i - 1) ELSE i

\* String.prototype.trim
Trim(s) ==
    LET a == SkipWs(s, 1)
        b == SkipWsBack(s, Len(s))
    IN  IF a > b THEN <<>> ELSE SubSeq(s, a, b)

\* s.startsWith(w, i), 1-based
StartsAt(s, w, i) ==
    /\ i >= 1
    /\ i + Len(w) - 1 <= Len(s)
    /\ SubSeq(s, i, i + Len(w) - 1) = w

\* s.indexOf(w, from), 1-based; 0 when absent
RECURSIVE IndexOf(_, _, _)
IndexOf(s, w, from) ==
    IF from + Len(w) - 1 > Len(s) THEN 0
    ELSE IF StartsAt(s, w, from) THEN from
    ELSE IndexOf(s, w, from + 1)

Upper == <<"A", "B", "C", "D", "E", "F", "G", "H", "I", "J", "K", "L", "M",
           "N", "O", "P", "Q", "R", "S", "T", "U", "V", "W", "X", "Y", "Z">>

Lower == <<"a", "b", "c", "d", "e", "f", "g", "h", "i", "j", "k", "l", "m",
           "n", "o", "p", "q", "r", "s", "t", "u", "v", "w", "x", "y", "z">>

ToLower(c) ==
    IF \E i \in 1..Len(Upper) : Upper[i] = c
    THEN Lower[CHOOSE i \in 1..Len(Upper) : Upper[i] = c]
    ELSE c

LowerSeq(s) == [i \in 1..Len(s) |-> ToLower(s[i])]

\* ------------------------------------------------------------------------
\* JSON.parse.  The parsed value is represented by the text of the value
\* with insignificant white space removed; the literal null parses to
\* JsNull.
\* ------------------------------------------------------------------------
PFail == [ok |-> FALSE, j |-> 0, v |-> <<>>]

EscOk == {"\"", "\\", "/", "b", "f", "n", "r", "t"}

\* index of the quote closing the string whose content starts at k; 0 if none
RECURSIVE PStr(_, _)
PStr(s, k) ==
    IF k > Len(s) THEN 0
    ELSE IF s[k] = "\"" THEN k
    ELSE IF s[k] = "\\"
         THEN IF k + 1 <= Len(s) /\ s[k + 1] \in EscOk THEN PStr(s, k + 2) ELSE 0
    ELSE IF s[k] = "\n" THEN 0
    ELSE PStr(s, k + 1)

RECURSIVE DigitsEnd(_, _)
DigitsEnd(s, k) ==
    IF k <= Len(s) /\ s[k] \in Digits THEN DigitsEnd(s, k + 1) ELSE k

\* JSON number: -? int frac?   (no exponent in the texts considered)
PNum(s, i) ==
    LET a  == IF s[i] = "-" THEN i + 1 ELSE i
        b  == DigitsEnd(s, a)
        okInt == b > a /\ (s[a] = "0" => b = a + 1)
        c  == IF b <= Len(s) /\ s[b] = "." THEN DigitsEnd(s, b + 1) ELSE b
        okFrac == (b <= Len(s) /\ s[b] = ".") => c > b + 1
    IN  IF okInt /\ okFrac
        THEN [ok |-> TRUE, j |-> c, v |-> SubSeq(s, i, c - 1)]
        ELSE PFail

RECURSIVE PValue(_, _), PElems(_, _, _), PMembers(_, _, _)
PValue(s, i) ==
    IF i > Len(s) THEN PFail
    ELSE IF s[i] = "n"
         THEN IF StartsAt(s, <<"n", "u", "l", "l">>, i)
              THEN [ok |-> TRUE, j |-> i + 4, v |-> JsNull]
              ELSE PFail
    ELSE IF s[i] = "\""
         THEN LET q == PStr(s, i + 1)
              IN  IF q = 0 THEN PFail
                  ELSE [ok |-> TRUE, j |-> q + 1, v |-> SubSeq(s, i, q)]
    ELSE IF s[i] \in Digits \cup {"-"} THEN PNum(s, i)
    ELSE IF s[i] = "["
         THEN LET k == SkipWs(s, i + 1)
              IN  IF k <= Len(s) /\ s[k] = "]"
                  THEN [ok |-> TRUE, j |-> k + 1, v |-> <<"[", "]">>]
                  ELSE PElems(s, k, <<"[">>)
    ELSE IF s[i] = "{"
         THEN LET k == SkipWs(s, i + 1)
              IN  IF k <= Len(s) /\ s[k] = "}"
                  THEN [ok |-> TRUE, j |-> k + 1, v |-> <<"{", "}">>]
                  ELSE PMembers(s, k, <<"{">>)
    ELSE PFail

PElems(s, k, acc) ==
    LET r  == PValue(s, k)
        k2 == SkipWs(s, r.j)
    IN  IF ~r.ok \/ k2 > Len(s) THEN PFail
        ELSE IF s[k2] = ","
             THEN PElems(s, SkipWs(s, k2 + 1), acc \o r.v \o <<",">>)
        ELSE IF s[k2] = "]"
             THEN [ok |-> TRUE, j |-> k2 + 1, v |-> acc \o r.v \o <<"]">>]
        ELSE PFail

PMembers(s, k, acc) ==
    IF k > Len(s) \/ s[k] # "\"" THEN PFail
    ELSE LET q  == PStr(s, k + 1)
             k2 == SkipWs(s, q + 1)
             r  == PValue(s, SkipWs(s, k2 + 1))
             k3 == SkipWs(s, r.j)
         IN  IF q = 0 \/ k2 > Len(s) THEN PFail
             ELSE IF s[k2] # ":" THEN PFail
             ELSE IF ~r.ok \/ k3 > Len(s) THEN PFail
             ELSE IF s[k3] = ","
                  THEN PMembers(s, SkipWs(s, k3 + 1),
                                acc \o SubSeq(s, k, q) \o <<":">> \o r.v \o <<",">>)
             ELSE IF s[k3] = "}"
                  THEN [ok |-> TRUE, j |-> k3 + 1,
                        v |-> acc \o SubSeq(s, k, q) \o <<":">> \o r.v \o <<"}">>]
             ELSE PFail

\* JSON.parse(s): ok = FALSE models the SyntaxError it throws
JSONparse(s) ==
    LET r == PValue(s, SkipWs(s, 1))
    IN  IF r.ok /\ SkipWs(s, r.j) > Len(s)
        THEN [ok |-> TRUE, v |-> r.v]
        ELSE [ok |-> FALSE, v |-> <<>>]

\* s.replace(/^\s*JSON\s*:\s*/i, "")
StripLabel(s) ==
    LET a == SkipWs(s, 1)
        b == SkipWs(s, a + 4)
    IN  IF /\ a + 3 <= Len(s)
           /\ LowerSeq(SubSeq(s, a, a + 3)) = <<"j", "s", "o", "n">>
           /\ b <= Len(s)
           /\ s[b] = ":"
        THEN SubSeq(s, SkipWs(s, b + 1), Len(s))
        ELSE s

\* const tryParse = (s) => JSON.parse(s.replace(label, "").trim())
tryParse(s) == JSONparse(Trim(StripLabel(s)))

\* ------------------------------------------------------------------------
\* 1) fenced blocks:  /```(?:json)?\s*([\s\S]*?)```/g
\* A match is [start, end, block]: rawText[start..end-1] is match[0] and
\* block is capture group 1.
\* ------------------------------------------------------------------------
RECURSIVE MatchAllFenced(_, _)
MatchAllFenced(s, from) ==
    LET p == IndexOf(s, Fence, from)
        a == IF StartsAt(s, <<"j", "s", "o", "n">>, p + 3) THEN p + 7 ELSE p + 3
        b == SkipWs(s, a)
        q == IndexOf(s, Fence, b)
    IN  IF p = 0 THEN <<>>
        ELSE IF q = 0 THEN <<>>
        ELSE <<[start |-> p, end |-> q + 3, block |-> SubSeq(s, b, q - 1)]>>
                 \o MatchAllFenced(s, q + 3)

\* String.prototype.replace(needle, ""): removes the first occurrence
ReplaceFirst(s, needle) ==
    LET p == IndexOf(s, needle, 1)
    IN  IF p = 0 THEN s
        ELSE SubSeq(s, 1, p - 1) \o SubSeq(s, p + Len(needle), Len(s))

\* text.slice(0, start) + text.slice(end), 1-based start, exclusive end
RemoveSpan(s, start, end) ==
    SubSeq(s, 1, start - 1) \o SubSeq(s, end, Len(s))

NoWinner == [kind |-> "none", start |-> 0, end |-> 0]

\* for (let i = fencedMatches.length - 1; i >= 0; i--) { try ... break }
RECURSIVE TryFenced(_, _, _)
TryFenced(s, ms, i) ==
    IF i = 0 THEN [jsonData |-> JsNull, cleanedText |-> s, winner |-> NoWinner]
    ELSE LET r == tryParse(Trim(ms[i].block))
         IN  IF r.ok
             THEN [jsonData    |-> r.v,
                   cleanedText |-> Trim(ReplaceFirst(s, SubSeq(s, ms[i].start, ms[i].end - 1))),
                   winner      |-> [kind |-> "fenced", start |-> ms[i].start, end |-> ms[i].end]]
             ELSE TryFenced(s, ms, i - 1)

\* ------------------------------------------------------------------------
\* 2) fallback: balanced {...} or [...] regions
\* ------------------------------------------------------------------------
RECURSIVE CountBackslashes(_, _)
CountBackslashes(str, k) ==
    IF k >= 1 /\ str[k] = "\\" THEN 1 + CountBackslashes(str, k - 1) ELSE 0

isEscaped(str, idx) == CountBackslashes(str, idx - 1) % 2 = 1

\* the inner loop over j: the exclusive end of the region opened at i, or 0
RECURSIVE ScanRegion(_, _, _, _)
ScanRegion(text, j, stack, inString) ==
    IF j > Len(text) THEN 0
    ELSE LET c == text[j]
         IN  IF c = "\"" /\ ~isEscaped(text, j)
             THEN ScanRegion(text, j + 1, stack, ~inString)
             ELSE IF inString THEN ScanRegion(text, j + 1, stack, inString)
             ELSE IF c \in {"{", "["}
                  THEN ScanRegion(text, j + 1, Append(stack, c), inString)
             ELSE IF c \in {"}", "]"}
                  THEN LET last == stack[Len(stack)]
                           rest == SubSeq(stack, 1, Len(stack) - 1)
                       IN  IF (last = "{" /\ c # "}") \/ (last = "[" /\ c # "]")
                           THEN 0
                           ELSE IF Len(rest) = 0 THEN j + 1
                           ELSE ScanRegion(text, j + 1, rest, inString)
             ELSE ScanRegion(text, j + 1, stack, inString)

\* the outer loop over i
RECURSIVE CollectCandidates(_, _)
CollectCandidates(text, i) ==
    IF i > Len(text) THEN <<>>
    ELSE IF text[i] \notin {"{", "["} THEN CollectCandidates(text, i + 1)
    ELSE LET e == ScanRegion(text, i + 1, <<text[i]>>, FALSE)
         IN  (IF e = 0 THEN <<>> ELSE <<[start |-> i, end |-> e]>>)
                 \o CollectCandidates(text, i + 1)

\* for (let k = candidates.length - 1; k >= 0; k--) { try ... break }
RECURSIVE TryCandidates(_, _, _, _)
TryCandidates(text, cs, k, prev) ==
    IF k = 0 THEN prev
    ELSE LET r == tryParse(Trim(SubSeq(text, cs[k].start, cs[k].end - 1)))
         IN  IF r.ok
             THEN [jsonData    |-> r.v,
                   cleanedText |-> Trim(RemoveSpan(text, cs[k].start, cs[k].end)),
                   winner      |-> [kind |-> "bare", start |-> cs[k].start, end |-> cs[k].end]]
             ELSE TryCandidates(text, cs, k - 1, prev)

\* ------------------------------------------------------------------------
\* Texts given to the Extractor
\* ------------------------------------------------------------------------
Obj1     == <<"{", "\"", "a", "\"", ":", "1", "}">>
Arr1     == <<"[", "1", "]">>
Nested   == <<"[", "{", "\"", "a", "\"", ":", "1", "}", "]">>
BraceStr == <<"{", "\"", "a", "\"", ":", " ", "\"", "}", "\"", "}">>
EscStr   == <<"{", "\"", "a", "\"", ":", "\"", "\\", "\"", "}", "\"", "}">>
ListStr  == <<"{", "\"", "a", "\"", ":", "\"", "[", "1", "]", "\"", "}">>
Broken   == <<"[", "1">>
NullLit  == <<"n", "u", "l", "l">>

Fenced(c) == Fence \o c \o Fence
FencedJson(c) == Fence \o <<"j", "s", "o", "n", "\n">> \o c \o <<"\n">> \o Fence

Pieces ==
    { <<"a", " ">>,
      Fenced(Arr1), FencedJson(Obj1), Fenced(Broken), Fenced(NullLit),
      Obj1, Nested, BraceStr, EscStr, ListStr, Broken }

RECURSIVE Texts(_)
Texts(n) ==
    IF n = 0 THEN {<<>>}
    ELSE LET shorter == Texts(n - 1)
         IN  shorter \cup {t \o p : t \in shorter, p \in Pieces}

\* ------------------------------------------------------------------------
\* The Extractor as a state machine
\* ------------------------------------------------------------------------
ExtractInit ==
    /\ rawText \in Texts(MaxPieces)
    /\ jsonData = JsNull
    /\ cleanedText = rawText
    /\ fencedMatches = <<>>
    /\ candidates = <<>>
    /\ winner = NoWinner
    /\ xpc = "fenced"

\* lines 114-129
ExtractFenced ==
    /\ xpc = "fenced"
    /\ LET ms == MatchAllFenced(rawText, 1)
           r  == TryFenced(rawText, ms, Len(ms))
       IN  /\ fencedMatches' = ms
           /\ jsonData' = r.jsonData
           /\ cleanedText' = r.cleanedText
           /\ winner' = r.winner
    /\ xpc' = "balanced"
    /\ UNCHANGED <<rawText, candidates>>
    /\ UNCHANGED notExtVars

\* lines 131-180
ExtractBalanced ==
    /\ xpc = "balanced"
    /\ IF jsonData = JsNull
       THEN LET cs == CollectCandidates(rawText, 1)
                r  == TryCandidates(rawText, cs, Len(cs),
                                    [jsonData |-> jsonData, cleanedText |-> cleanedText,
                                     winner |-> winner])
            IN  /\ candidates' = cs
                /\ jsonData' = r.jsonData
                /\ cleanedText' = r.cleanedText
                /\ winner' = r.winner
       ELSE UNCHANGED <<candidates, jsonData, cleanedText, winner>>
    /\ xpc' = "done"
    /\ UNCHANGED <<rawText, fencedMatches>>
    /\ UNCHANGED notExtVars

\* ------------------------------------------------------------------------
\* JavaScript values.  Numbers are fixed-point: the integer n stands for
\* n / Scale.  NaN is a number of its own.
\* ------------------------------------------------------------------------
Scale == 10 * 10 * 10

JUndef == [t |-> "undef"]
JNull == [t |-> "null"]
\* a number: n counts units of 1 / Scale, more holds the fraction digits after
\* the third (none for the numbers this module computes with)
JNum(n) == [t |-> "num", nan |-> FALSE, n |-> n, more |-> <<>>]
JNaN == [t |-> "num", nan |-> TRUE, n |-> 0, more |-> <<>>]
JStr(s) == [t |-> "str", s |-> s]
JArr(a) == [t |-> "arr", a |-> a]
JObj(o) == [t |-> "obj", o |-> o]

\* a ?? b
Coalesce(a, b) == IF a.t \in {"undef", "null"} THEN b ELSE a

\* !!v
Truthy(v) ==
    CASE v.t \in {"undef", "null"} -> FALSE
      [] v.t = "num" -> ~v.nan /\ (v.n # 0 \/ v.more # <<>>)
      [] v.t = "str" -> Len(v.s) > 0
      [] OTHER -> TRUE

\* typeof v === "object" for a truthy v
IsObjectType(v) == v.t \in {"obj", "arr"}

\* v[k] for a property name k
Get(v, k) == IF v.t = "obj" /\ k \in DOMAIN v.o THEN v.o[k] ELSE JUndef

\* k in v
HasKey(v, k) == v.t = "obj" /\ k \in DOMAIN v.o

DigitSeq == <<"0", "1", "2", "3", "4", "5", "6", "7", "8", "9">>

DigitVal(c) == (CHOOSE i \in 1..Len(DigitSeq) : DigitSeq[i] = c) - 1

RECURSIVE DigitsValue(_, _)
DigitsValue(ds, acc) ==
    IF ds = <<>> THEN acc ELSE DigitsValue(Tail(ds), acc * 10 + DigitVal(Head(ds)))

\* the first three fraction digits, in units of 1 / Scale
FracValue(ds) ==
    LET d(i) == IF i <= Len(ds) THEN DigitVal(ds[i]) ELSE 0
    IN  d(1) * 100 + d(2) * 10 + d(3)

RECURSIVE StripZeros(_)
StripZeros(ds) ==
    IF ds # <<>> /\ ds[Len(ds)] = "0" THEN StripZeros(SubSeq(ds, 1, Len(ds) - 1)) ELSE ds

\* the fraction digits after the third, without trailing zeros
MoreDigits(ds) == IF Len(ds) > 3 THEN StripZeros(SubSeq(ds, 4, Len(ds))) ELSE <<>>

\* where parseFloat stops reading s: [value, end]
ReadFraction(s, a, b0, b, c) ==
    LET neg == a <= Len(s) /\ s[a] = "-"
        hasDot == b <= Len(s) /\ s[b] = "."
        mag == DigitsValue(SubSeq(s, b0, b - 1), 0) * Scale
                 + (IF hasDot THEN FracValue(SubSeq(s, b + 1, c - 1)) ELSE 0)
    IN  IF b = b0 /\ (~hasDot \/ c = b + 1)
        THEN [value |-> JNaN, end |-> a]
        ELSE [value |-> [JNum(IF neg THEN 0 - mag ELSE mag) EXCEPT
                            !.more = IF hasDot THEN MoreDigits(SubSeq(s, b + 1, c - 1))
                                     ELSE <<>>],
              end |-> c]

ReadInteger(s, a, b0, b) ==
    ReadFraction(s, a, b0, b,
                 IF b <= Len(s) /\ s[b] = "." THEN DigitsEnd(s, b + 1) ELSE b)

ReadSign(s, a) ==
    ReadInteger(s, a, IF a <= Len(s) /\ s[a] \in {"-", "+"} THEN a + 1 ELSE a,
                DigitsEnd(s, IF a <= Len(s) /\ s[a] \in {"-", "+"} THEN a + 1 ELSE a))

ReadFloat(s) == ReadSign(s, SkipWs(s, 1))

parseFloat(s) == ReadFloat(s).value

RECURSIVE NatToStr(_)
NatToStr(n) ==
    IF n < 10 THEN <<DigitSeq[n + 1]>>
    ELSE NatToStr(n \div 10) \o <<DigitSeq[(n % 10) + 1]>>

\* String(n) for a number
NumToStr(v) ==
    IF v.nan THEN <<"N", "a", "N">>
    ELSE LET m  == IF v.n < 0 THEN 0 - v.n ELSE v.n
             fr == IF v.more = <<>>
                   THEN StripZeros(SubSeq(NatToStr(Scale + (m % Scale)), 2, 4))
                   ELSE SubSeq(NatToStr(Scale + (m % Scale)), 2, 4) \o v.more
         IN  (IF v.n < 0 THEN <<"-">> ELSE <<>>)
                 \o NatToStr(m \div Scale)
                 \o (IF fr = <<>> THEN <<>> ELSE <<".">> \o fr)

\* String(v)
RECURSIVE JsString(_), JoinArr(_, _)
JsString(v) ==
    CASE v.t = "str" -> v.s
      [] v.t = "num" -> NumToStr(v)
      [] v.t = "null" -> <<"n", "u", "l", "l">>
      [] v.t = "undef" -> <<"u", "n", "d", "e", "f", "i", "n", "e", "d">>
      [] v.t = "arr" -> JoinArr(v.a, 1)
      [] OTHER -> <<"[", "o", "b", "j", "e", "c", "t", " ", "O", "b", "j", "e", "c", "t", "]">>

JoinArr(a, i) ==
    IF i > Len(a) THEN <<>>
    ELSE (IF a[i].t \in {"null", "undef"} THEN <<>> ELSE JsString(a[i]))
             \o (IF i < Len(a) THEN <<",">> ELSE <<>>)
             \o JoinArr(a, i + 1)

\* Number(v)
WholeNumber(s, r) ==
    IF s = <<>> THEN JNum(0)
    ELSE IF ~r.value.nan /\ r.end > Len(s) THEN r.value
    ELSE JNaN

StringToNumber(s) ==
    LET whole(r) == WholeNumber(s, r)
    IN  Eager1(whole, ReadFloat(s))

\* Number(v)
JsNumber(v) ==
    CASE v.t = "num" -> v
      [] v.t = "null" -> JNum(0)
      [] v.t = "undef" -> JNaN
      [] v.t = "obj" -> JNaN
      [] OTHER -> Eager1(StringToNumber, Trim(JsString(v)))

Has(s, c) == \E i \in 1..Len(s) : s[i] = c

\* s.replace(/,/g, to) with to a string of length 0 or 1
RECURSIVE ReplaceCommas(_, _)
ReplaceCommas(s, to) ==
    IF s = <<>> THEN <<>>
    ELSE (IF Head(s) = "," THEN to ELSE <<Head(s)>>) \o ReplaceCommas(Tail(s), to)

\* s.replace(/[^0-9.-]+/g, "")
KeepNumeric(s) == SelectSeq(s, LAMBDA c : c \in Digits \cup {".", "-"})

\* part_001 lines 50-60
\* a faulty variant: every comma becomes a dot, whatever else the text holds
CommasToDots(s0) == ReplaceCommas(s0, <<".">>)

SwapCommas(s0) ==
    IF Has(s0, ".") /\ Has(s0, ",") THEN ReplaceCommas(s0, <<>>) ELSE ReplaceCommas(s0, <<".">>)

\* lines 53-58 of part_001 and 173-183 of MapView.tsx: the number read from
\* String(v)
ReadNumber(v) == Eager1(parseFloat, KeepNumeric(SwapCommas(Trim(JsString(v)))))

FiniteOr0(n) == IF n.nan THEN JNum(0) ELSE n

\* part_001 lines 50-60
toNumber(v) ==
    IF v.t \in {"null", "undef"} THEN JNum(0)
    ELSE IF v.t = "num" THEN v
    ELSE FiniteOr0(ReadNumber(v))

\* ------------------------------------------------------------------------
\* The Normalizer of handleSend (part_001 lines 47-153)
\* ------------------------------------------------------------------------
FirstPresent(vs) ==
    IF \E i \in 1..Len(vs) : vs[i].t \notin {"null", "undef"}
    THEN vs[CHOOSE i \in 1..Len(vs) :
                /\ vs[i].t \notin {"null", "undef"}
                /\ \A j \in 1..(i - 1) : vs[j].t \in {"null", "undef"}]
    ELSE JUndef

\* part_001 lines 62-77
extractBudgetRaw(obj) ==
    IF ~Truthy(obj) THEN JUndef
    ELSE FirstPresent(<<Get(obj, "budget"), Get(obj, "cost"), Get(obj, "estimatedBudget"),
                        Get(obj, "dayBudget"), Get(obj, "price")>>)

\* part_001 lines 79-84
extractSource(d) ==
    IF ~Truthy(d) \/ ~IsObjectType(d) THEN JUndef
    ELSE LET src == Coalesce(Coalesce(Coalesce(Get(d, "source"), Get(d, "sourceUrl")),
                                      Get(d, "url")), Get(d, "wiki"))
         IN  IF src.t = "str" THEN src ELSE JUndef

\* a faulty variant: every record is stamped with day 1
DayOneRecord(day, o, budgetVal) ==
    [day |-> JNum(Scale), name |-> <<>>, lat |-> JNum(0), lng |-> JNum(0), desc |-> <<>>,
     source |-> JUndef, budget |-> JUndef]

\* the object literal pushed at lines 107-115, 124-132 and 138-146
MakePoint(day, o, budgetVal) ==
    [day    |-> day,
     name   |-> JsString(Coalesce(Get(o, "name"), JStr(<<>>))),
     lat    |-> toNumber(Coalesce(Coalesce(Get(o, "lat"), Get(o, "latitude")), JNum(0))),
     lng    |-> toNumber(Coalesce(Coalesce(Get(o, "lng"), Get(o, "longitude")), JNum(0))),
     desc   |-> JsString(Coalesce(Coalesce(Get(o, "desc"), Get(o, "description")), JStr(<<>>))),
     source |-> extractSource(o),
     budget |-> budgetVal]

\* lines 102-116: for (const d of dests)
RECURSIVE DestPoints(_, _, _, _)
DestPoints(dests, i, dayNum, dobj) ==
    IF i > Len(dests) THEN <<>>
    ELSE (IF ~Truthy(dests[i]) \/ ~IsObjectType(dests[i]) THEN <<>>
          ELSE <<MakePoint(JsNumber(Coalesce(dayNum, JNum(0))), dests[i],
                           Coalesce(extractBudgetRaw(dests[i]), extractBudgetRaw(dobj)))>>)
             \o DestPoints(dests, i + 1, dayNum, dobj)

\* lines 96-117: for (const dayObj of arr)
RECURSIVE ItineraryPoints(_, _)
ItineraryPoints(arr, i) ==
    IF i > Len(arr) THEN <<>>
    ELSE (IF ~Truthy(arr[i]) \/ ~IsObjectType(arr[i]) THEN <<>>
          ELSE LET dobj   == arr[i]
                   dayNum == JsNumber(Coalesce(Get(dobj, "day"), JNum(0)))
                   dests  == Get(dobj, "destinations")
               IN  IF dests.t # "arr" THEN <<>>
                   ELSE DestPoints(dests.a, 1, dayNum, dobj))
             \o ItineraryPoints(arr, i + 1)

\* lines 120-133: for (const item of arr)
RECURSIVE PlacePoints(_, _)
PlacePoints(arr, i) ==
    IF i > Len(arr) THEN <<>>
    ELSE (IF ~Truthy(arr[i]) \/ ~IsObjectType(arr[i]) THEN <<>>
          ELSE <<MakePoint(JNum(Scale), arr[i], extractBudgetRaw(arr[i]))>>)
             \o PlacePoints(arr, i + 1)

\* lines 47-147: the points built from jsonData
Normalize(j) ==
    IF ~Truthy(j) THEN <<>>
    ELSE IF j.t = "arr"
         THEN LET first == IF Len(j.a) > 0 THEN j.a[1] ELSE JUndef
              IN  IF Truthy(first) /\ IsObjectType(first) /\ HasKey(first, "day")
                  THEN ItineraryPoints(j.a, 1)
                  ELSE PlacePoints(j.a, 1)
    ELSE IF j.t = "obj" THEN <<MakePoint(JNum(Scale), j, extractBudgetRaw(j))>>
    ELSE <<>>

\* ------------------------------------------------------------------------
\* Payloads handed to handleSend
\* ------------------------------------------------------------------------
Txt10c5   == <<"1", "0", ",", "5">>
Txt1234c56 == <<"1", ".", "2", "3", "4", ",", "5", "6">>
TxtAbc    == <<"a", "b", "c">>

LatVals == {JNum(21 * Scale), JNum(110 * Scale), JStr(Txt10c5), JStr(TxtAbc)}
LngVals == {JNum(105 * Scale), JNum(21 * Scale), JStr(Txt1234c56)}

Places ==
    {JObj([name |-> JStr(<<"A">>), lat |-> la, lng |-> lo]) : la \in LatVals, lo \in LngVals}
    \cup {JObj([name |-> JStr(<<"B">>), latitude |-> JNum(16 * Scale),
                longitude |-> JNum(108 * Scale), description |-> JStr(<<"d">>),
                url |-> JStr(<<"u">>), cost |-> JNum(5 * Scale)]),
          JObj([name |-> JStr(<<"C">>)]),
          JObj([lat |-> JNull, latitude |-> JStr(Txt10c5), lng |-> JNum(0 - 200 * Scale)])}

PlaceA == JObj([name |-> JStr(<<"A">>), lat |-> JNum(21 * Scale), lng |-> JNum(105 * Scale)])
PlaceB == JObj([name |-> JStr(<<"B">>), lat |-> JNum(110 * Scale), lng |-> JNum(21 * Scale)])

DayVals == {JNum(Scale), JNum(2 * Scale), JNum(0), JStr(<<"2">>), JStr(<<"x">>), JNull}

DestLists ==
    {<<>>, <<PlaceA>>, <<PlaceB>>, <<PlaceA, PlaceB>>, <<JNull, PlaceA>>, <<PlaceA, JNum(Scale)>>}

DayObjs ==
    {JObj([day |-> d, destinations |-> JArr(ds)]) : d \in DayVals, ds \in DestLists}
    \cup {JObj([day |-> JNum(Scale), destinations |-> JStr(<<"x">>)]),
          JObj([day |-> JNum(Scale), dayBudget |-> JNum(9 * Scale), destinations |-> JArr(<<PlaceA>>)]),
          JObj([day |-> JNum(0 - Scale), destinations |-> JArr(<<PlaceA>>)])}

Day1 == JObj([day |-> JNum(Scale), destinations |-> JArr(<<PlaceA, PlaceB>>)])
Day2 == JObj([day |-> JNum(2 * Scale), destinations |-> JArr(<<PlaceA>>)])
Day3 == JObj([day |-> JNum(3 * Scale), destinations |-> JArr(<<>>)])
NoDay == JObj([destinations |-> JArr(<<PlaceA>>)])

Payloads ==
    {JNull, JNum(0), JNum(Scale), JStr(<<"x">>), JArr(<<>>)}
    \cup Places
    \cup {JArr(<<p>>) : p \in Places}
    \cup {JArr(<<PlaceA, p>>) : p \in {PlaceB, JNull, JNum(Scale)}}
    \cup {JArr(<<d>>) : d \in DayObjs}
    \cup {JArr(<<Day1, Day2, Day3>>), JArr(<<Day1, JNull, Day2>>), JArr(<<PlaceA, Day1>>),
          JArr(<<Day1, NoDay>>), JArr(<<Day1, Day2, Day1>>)}

Prompts == {<<"q">>, <<" ">>}

\* the prefix of the message appended at line 160 (its accented letter
\* written without the accent)
ErrorPrefix == <<"L", "o", "i", ":", " ">>
Replies == {<<"o", "k">>}
ErrorTexts == {<<"E">>}

\* ------------------------------------------------------------------------
\* ChatBox.handleSend (part_001 lines 29-165)
\* ------------------------------------------------------------------------
ChatInit ==
    /\ messages = <<>>
    /\ chatLoading = FALSE
    /\ chatError = JNull
    /\ mapData = <<>>
    /\ replyJson = JUndef
    /\ turns = 0

\* lines 30-40: up to the await of askJourneyBot
HandleSendStart(text) ==
    /\ turns < MaxTurns
    /\ Trim(text) # <<>>
    /\ ~chatLoading
    /\ messages' = Append(messages, [role |-> "user", content |-> Trim(text)])
    /\ chatLoading' = TRUE
    /\ chatError' = JNull
    /\ turns' = turns + 1
    /\ UNCHANGED <<mapData, replyJson>>
    /\ UNCHANGED notChatVars

\* a faulty variant: the list is replaced by whatever the reply normalizes to
AlwaysSetMapData(reply, json) ==
    /\ chatLoading
    /\ messages' = Append(messages, [role |-> "assistant", content |-> reply])
    /\ replyJson' = json
    /\ mapData' = Normalize(json)
    /\ chatLoading' = FALSE
    /\ UNCHANGED <<chatError, turns>>
    /\ UNCHANGED notChatVars

\* lines 40-153 and 162-164: askJourneyBot resolved
HandleSendReply(reply, json) ==
    /\ chatLoading
    /\ messages' = Append(messages, [role |-> "assistant", content |-> reply])
    /\ replyJson' = json
    /\ LET pts == Normalize(json)
       IN  mapData' = IF Len(pts) > 0 THEN pts ELSE mapData
    /\ chatLoading' = FALSE
    /\ UNCHANGED <<chatError, turns>>
    /\ UNCHANGED notChatVars

\* a faulty variant: a catch without the finally of lines 162-164
CatchWithoutFinally(msg) ==
    /\ chatLoading
    /\ chatError' = JStr(msg)
    /\ messages' = Append(messages, [role |-> "assistant", content |-> ErrorPrefix \o msg])
    /\ UNCHANGED <<chatLoading, mapData, replyJson, turns>>
    /\ UNCHANGED notChatVars

\* lines 154-164: askJourneyBot rejected
HandleSendError(msg) ==
    /\ chatLoading
    /\ chatError' = JStr(msg)
    /\ messages' = Append(messages, [role |-> "assistant", content |-> ErrorPrefix \o msg])
    /\ chatLoading' = FALSE
    /\ UNCHANGED <<mapData, replyJson, turns>>
    /\ UNCHANGED notChatVars

\* ------------------------------------------------------------------------
\* MapView helpers (MapView.tsx lines 108-254, 405-468).  Coordinates are
\* fixed-point like every number; a position is <<lng, lat>>.  A bounding
\* box is <<minLng, minLat, maxLng, maxLat>> in units of 1 / (Scale * Fine),
\* fine enough for the padding of expandBBox to be exact.
\* ------------------------------------------------------------------------
Fine == 10 * 10

Abs(n) == IF n < 0 THEN 0 - n ELSE n
Min2(a, b) == IF a < b THEN a ELSE b
Max2(a, b) == IF a > b THEN a ELSE b

\* the absent geometry (null)
GNull == [type |-> "null"]

LineTypes == {"Polygon", "MultiPolygon", "LineString", "MultiLineString"}

\* lines 168-185: parse of normalizeLatLng
ParseCoord(v) ==
    IF v.t \in {"null", "undef"} THEN JNaN
    ELSE IF v.t = "num" THEN v
    ELSE ReadNumber(v)

\* v > k and v <= k for a number v and a whole number of degrees k; the digits
\* of v.more lengthen the magnitude of v
Above(v, k) ==
    \/ v.n > k * Scale
    \/ v.n = k * Scale /\ v.n >= 0 /\ v.more # <<>>

AtMost(v, k) == ~Above(v, k)

AtLeast(v, k) ==
    \/ v.n > k * Scale
    \/ v.n = k * Scale /\ (v.n >= 0 \/ v.more = <<>>)

\* Math.abs
MathAbs(v) == [v EXCEPT !.n = Abs(v.n)]

\* a faulty variant: the bands are looked at before the magnitudes
BandFirst(rawLat, rawLng) ==
    LET looksLikeLat(v) == AtLeast(v, 6) /\ AtMost(v, 30)
        looksLikeLng(v) == AtLeast(v, 95) /\ AtMost(v, 120)
    IN  IF rawLat.nan \/ rawLng.nan THEN "invalid"
        ELSE IF looksLikeLat(rawLng) /\ looksLikeLng(rawLat) THEN "band"
        ELSE IF Above(MathAbs(rawLat), 90) /\ AtMost(MathAbs(rawLng), 90) THEN "magnitude"
        ELSE "none"

\* lines 190-225: the branch taken for the two parsed numbers
SwapBranch(rawLat, rawLng) ==
    LET looksLikeLat(v) == AtLeast(v, 6) /\ AtMost(v, 30)
        looksLikeLng(v) == AtLeast(v, 95) /\ AtMost(v, 120)
    IN  IF rawLat.nan \/ rawLng.nan THEN "invalid"
        ELSE IF Above(MathAbs(rawLat), 90) /\ AtMost(MathAbs(rawLng), 90) THEN "magnitude"
        ELSE IF looksLikeLat(rawLng) /\ looksLikeLng(rawLat) THEN "band"
        ELSE "none"

\* lines 187-228: the pair returned for the two parsed numbers
FixOrder(rawLat, rawLng) ==
    LET branch == SwapBranch(rawLat, rawLng)
    IN  IF branch = "invalid"
        THEN [lat |-> IF rawLat.nan THEN JNum(0) ELSE rawLat,
              lng |-> IF rawLng.nan THEN JNum(0) ELSE rawLng]
        ELSE IF branch \in {"magnitude", "band"}
             THEN [lat |-> rawLng, lng |-> rawLat]
        ELSE [lat |-> rawLat, lng |-> rawLng]

\* lines 168-229
normalizeLatLng(p) == FixOrder(ParseCoord(p.lat), ParseCoord(p.lng))

\* the position the map engine is given for a point, in units of 1 / Scale of
\* a degree (the resolution at which markers, boxes and the camera are held)
LngLat(p) ==
    LET at(ll) == [lat |-> ll.lat.n, lng |-> ll.lng.n]
    IN  Eager1(at, normalizeLatLng(p))

AlphaNum == Digits \cup {Lower[i] : i \in 1..Len(Lower)}

\* .replace(/[^a-z0-9]+/g, "-")
RECURSIVE Dashes(_, _)
Dashes(s, i) ==
    IF i > Len(s) THEN <<>>
    ELSE IF s[i] \in AlphaNum THEN <<s[i]>> \o Dashes(s, i + 1)
    ELSE IF i > 1 /\ s[i - 1] \notin AlphaNum THEN Dashes(s, i + 1)
    ELSE <<"-">> \o Dashes(s, i + 1)

\* lines 231-235
TrimDashes(d) ==
    LET a == IF d # <<>> /\ d[1] = "-" THEN 2 ELSE 1
        b == IF Len(d) >= a /\ d[Len(d)] = "-" THEN Len(d) - 1 ELSE Len(d)
    IN  IF a > b THEN <<>> ELSE SubSeq(d, a, b)

DashesOf(s) == Dashes(s, 1)

slug(s) == Eager1(TrimDashes, Eager1(DashesOf, LowerSeq(s)))

\* lines 237-254; factor given in percent
expandBBox(bbox, pct) ==
    LET dx == bbox[3] - bbox[1]
        dy == bbox[4] - bbox[2]
        padX == IF dx = 0 THEN (Scale * Fine) \div 100 ELSE (dx * pct) \div 100
        padY == IF dy = 0 THEN (Scale * Fine) \div 100 ELSE (dy * pct) \div 100
    IN  <<bbox[1] - padX, bbox[2] - padY, bbox[3] + padX, bbox[4] + padY>>

\* the box of a set of positions, in fine units
BoxOf(ps) ==
    LET xs == {q[1] : q \in ps}
        ys == {q[2] : q \in ps}
        lo(S) == CHOOSE v \in S : \A w \in S : v <= w
        hi(S) == CHOOSE v \in S : \A w \in S : v >= w
    IN  <<lo(xs) * Fine, lo(ys) * Fine, hi(xs) * Fine, hi(ys) * Fine>>

Range(f) == {f[i] : i \in DOMAIN f}

\* every position of a geometry (visitCoords, lines 413-426)
RECURSIVE Positions(_)
Positions(g) ==
    IF g.type \in LineTypes \cup {"Point"} THEN Range(g.coords)
    ELSE IF g.type = "GeometryCollection"
         THEN UNION {Positions(g.geometries[i]) : i \in 1..Len(g.geometries)}
    ELSE {}

NoBox == <<>>

\* lines 405-468; NoBox for null
BoxOrNone(ps) == IF ps = {} THEN NoBox ELSE BoxOf(ps)

\* lines 405-468; NoBox for null
geometryBBox(g) ==
    IF g.type \notin LineTypes \cup {"Point", "GeometryCollection"} THEN NoBox
    ELSE Eager1(BoxOrNone, Positions(g))

\* lines 108-126: the circle of the given radius (meters) around a point,
\* kept by centre and radius
makeCircle(lng, lat, radius) ==
    [type |-> "Feature",
     geometry |-> [type |-> "Polygon", centre |-> <<lng, lat>>, radius |-> radius]]

\* the Feature wrapped around a geometry at lines 609-613
FeatureOf(g) == [type |-> "Feature", geometry |-> g]

\* fc.features.find(...) at lines 559-566 and 581-588; 0 when none
FindLineFeature(fs) ==
    IF \E i \in 1..Len(fs) : fs[i].geometry.type \in LineTypes
    THEN CHOOSE i \in 1..Len(fs) :
            /\ fs[i].geometry.type \in LineTypes
            /\ \A j \in 1..(i - 1) : fs[j].geometry.type \notin LineTypes
    ELSE 0

\* a faulty variant: the geometry a destination carries is never looked at
NoEmbedded(gj) == GNull

\* lines 548-592: the geometry embedded in a destination; gj is a record, or
\* JUndef when the destination carries none
EmbeddedGeometry(gj) ==
    IF "type" \in DOMAIN gj /\ gj.type = "FeatureCollection"
    THEN LET k == FindLineFeature(gj.features)
         IN  IF k > 0 THEN gj.features[k].geometry
             ELSE IF Len(gj.features) > 0 THEN gj.features[1].geometry
             ELSE GNull
    ELSE IF "type" \in DOMAIN gj THEN gj
    ELSE IF "features" \in DOMAIN gj
         THEN LET k == FindLineFeature(gj.features)
              IN  IF k > 0 THEN gj.features[k].geometry ELSE GNull
    ELSE GNull

\* ------------------------------------------------------------------------
\* BoundaryResolver: fetchBoundaryFromNominatim (lines 256-402).  A step of
\* the resolver ends by returning a geometry (or null), by awaiting the
\* details call for the chosen result, or by throwing.
\* ------------------------------------------------------------------------
Return(g) == [k |-> "return", g |-> g, first |-> JUndef]
AwaitDetails(first) == [k |-> "details", g |-> GNull, first |-> first]
Throw == [k |-> "throw", g |-> GNull, first |-> JUndef]

\* one entry of the search reply
Result(geojson, class, boundingbox, osm_type, osm_id) ==
    [t |-> "obj", geojson |-> geojson, class |-> class, boundingbox |-> boundingbox,
     osm_type |-> osm_type, osm_id |-> osm_id]

IsPolygon(g) == g.type \in {"Polygon", "MultiPolygon"}

Preferred == {<<"t", "o", "u", "r", "i", "s", "m">>, <<"n", "a", "t", "u", "r", "a", "l">>,
              <<"l", "a", "n", "d", "u", "s", "e">>, <<"l", "e", "i", "s", "u", "r", "e">>,
              <<"h", "i", "s", "t", "o", "r", "i", "c">>}

\* results.find(pred): the first index satisfying pred, 0 when none
FirstIndex(rs, pred(_)) ==
    IF \E i \in 1..Len(rs) : pred(rs[i])
    THEN CHOOSE i \in 1..Len(rs) : pred(rs[i]) /\ \A j \in 1..(i - 1) : ~pred(rs[j])
    ELSE 0

HasBox(r) == r.boundingbox.t = "arr" /\ Len(r.boundingbox.a) = 4

\* [south, north, west, east] as numbers, lines 310-314 and 375-379
BoxVals(r) ==
    <<JsNumber(r.boundingbox.a[1]), JsNumber(r.boundingbox.a[2]),
      JsNumber(r.boundingbox.a[3]), JsNumber(r.boundingbox.a[4])>>

\* lines 310-315; a NaN area is never greater than bestArea
AreaOf(v) ==
    IF \E i \in 1..4 : v[i].nan THEN 0
    ELSE Abs((Max2(v[1].n, v[2].n) - Min2(v[1].n, v[2].n))
                * (Max2(v[3].n, v[4].n) - Min2(v[3].n, v[4].n)))

BoxArea(r) == Eager1(AreaOf, BoxVals(r))

\* lines 306-321: the index of best, 0 when best stays null
RECURSIVE BestByArea(_, _, _, _)
BestByArea(rs, i, best, bestArea) ==
    IF i > Len(rs) THEN best
    ELSE IF HasBox(rs[i])
         THEN LET larger(area) == BestByArea(rs, i + 1, IF area > bestArea THEN i ELSE best,
                                             Max2(area, bestArea))
              IN  Eager1(larger, BoxArea(rs[i]))
    ELSE BestByArea(rs, i + 1, best, bestArea)

\* lines 283-325: the chosen result; JUndef when there is none
\* a faulty variant: the class is looked at before the polygon
ClassFirst(results, byPolygon, byClass, byArea) ==
    IF byClass > 0 THEN results[byClass]
    ELSE IF byPolygon > 0 THEN results[byPolygon]
    ELSE IF byArea > 0 THEN results[byArea]
    ELSE IF Len(results) > 0 THEN results[1]
    ELSE JUndef

Pick(results, byPolygon, byClass, byArea) ==
    IF byPolygon > 0 THEN results[byPolygon]
    ELSE IF byClass > 0 THEN results[byClass]
    ELSE IF byArea > 0 THEN results[byArea]
    ELSE IF Len(results) > 0 THEN results[1]
    ELSE JUndef

ChooseCandidate(results) ==
    Pick(results,
         FirstIndex(results, LAMBDA r : IsPolygon(r.geojson)),
         FirstIndex(results, LAMBDA r : r.class.t # "undef" /\ JsString(r.class) \in Preferred),
         BestByArea(results, 1, 0, 0))

\* lines 369-397 and 401: the polygon of the bounding box, or null
BoxPolygon(v) ==
    LET minLat == Min2(v[1].n, v[2].n)
        maxLat == Max2(v[1].n, v[2].n)
        minLng == Min2(v[3].n, v[4].n)
        maxLng == Max2(v[3].n, v[4].n)
    IN  [type |-> "Polygon",
         coords |-> <<<<minLng, minLat>>, <<maxLng, minLat>>, <<maxLng, maxLat>>,
                      <<minLng, maxLat>>, <<minLng, minLat>>>>]

BoxFallback(first) ==
    IF first.t = "obj" /\ HasBox(first) THEN Return(Eager1(BoxPolygon, BoxVals(first)))
    ELSE Return(GNull)

\* lines 258-367 up to the details call, for one outcome of the search call
AfterSearch(first) ==
    IF first.t = "obj" /\ IsPolygon(first.geojson) THEN Return(first.geojson)
    ELSE IF first.t = "obj" /\ Truthy(first.osm_type) /\ Truthy(first.osm_id)
         THEN AwaitDetails(first)
    ELSE BoxFallback(first)

SearchStep(out) ==
    IF out.k = "reject" THEN Throw
    ELSE IF out.k = "status" THEN Return(GNull)
    ELSE IF out.k = "badbody" THEN Throw
    ELSE IF out.raw.t # "arr" \/ Len(out.raw.a) = 0 THEN Return(GNull)
    ELSE Eager1(AfterSearch,
                Eager1(ChooseCandidate, SelectSeq(out.raw.a, LAMBDA x : x.t = "obj")))

\* lines 349-397, for one outcome of the details call
DetailsStep(first, out) ==
    IF out.k = "reject" THEN Throw
    ELSE IF out.k = "status" THEN BoxFallback(first)
    ELSE IF out.k = "badbody" THEN Throw
    ELSE IF IsPolygon(out.geojson) THEN Return(out.geojson)
    ELSE IF IsPolygon(out.polygon_geojson) THEN Return(out.polygon_geojson)
    ELSE BoxFallback(first)

\* lines 257 and 398-401: try { ... } catch { warn } return null
Catch(r) == IF r.k = "throw" THEN Return(GNull) ELSE r

\* ------------------------------------------------------------------------
\* Replies of the geocoding service
\* ------------------------------------------------------------------------
PolyS == [type |-> "Polygon",
          coords |-> <<<<105 * Scale, 21 * Scale>>, <<106 * Scale, 21 * Scale>>,
                       <<106 * Scale, 22 * Scale>>, <<105 * Scale, 21 * Scale>>>>]

PolyD == [type |-> "MultiPolygon",
          coords |-> <<<<107 * Scale, 16 * Scale>>, <<108 * Scale, 16 * Scale>>,
                       <<108 * Scale, 17 * Scale>>, <<107 * Scale, 16 * Scale>>>>]

PointG == [type |-> "Point", coords |-> <<<<105 * Scale, 21 * Scale>>>>]

BoxStrs == JArr(<<JStr(<<"2", "1">>), JStr(<<"2", "1", ".", "5">>),
                  JStr(<<"1", "0", "5">>), JStr(<<"1", "0", "6">>)>>)

SmallBoxStrs == JArr(<<JStr(<<"1", "0">>), JStr(<<"1", "0", ".", "1">>),
                       JStr(<<"1", "0", "6">>), JStr(<<"1", "0", "6", ".", "1">>)>>)

ResPoly == Result(PolyS, JStr(<<"b", "o", "u", "n", "d", "a", "r", "y">>), BoxStrs,
                  JStr(<<"r", "e", "l", "a", "t", "i", "o", "n">>), JNum(Scale))
ResNode == Result(PointG, JStr(<<"t", "o", "u", "r", "i", "s", "m">>), BoxStrs,
                  JStr(<<"n", "o", "d", "e">>), JNum(2 * Scale))
ResBox  == Result(GNull, JUndef, BoxStrs, JUndef, JUndef)
ResSmall == Result(GNull, JStr(<<"s", "h", "o", "p">>), SmallBoxStrs, JUndef, JUndef)
ResBare == Result(GNull, JUndef, JUndef, JUndef, JUndef)

SearchOutcomes ==
    {[k |-> "reject"], [k |-> "status"], [k |-> "badbody"],
     [k |-> "body", raw |-> JObj([error |-> JStr(<<"x">>)])],
     [k |-> "body", raw |-> JArr(<<>>)],
     [k |-> "body", raw |-> JArr(<<ResPoly>>)],
     [k |-> "body", raw |-> JArr(<<ResNode>>)],
     [k |-> "body", raw |-> JArr(<<ResSmall, ResBox>>)],
     [k |-> "body", raw |-> JArr(<<JStr(<<"x">>), ResBare>>)]}

DetailsOutcomes ==
    {[k |-> "reject"], [k |-> "status"], [k |-> "badbody"],
     [k |-> "body", geojson |-> PolyD, polygon_geojson |-> GNull],
     [k |-> "body", geojson |-> PointG, polygon_geojson |-> PolyD],
     [k |-> "body", geojson |-> GNull, polygon_geojson |-> GNull]}

\* ------------------------------------------------------------------------
\* MapView (MapView.tsx lines 35-105 and 471-798).  The operators below
\* work on a record w of everything a RenderSync pass reads and writes:
\*   markers, sources, layers, outlines, viewport : as the variables
\*   loaded  : what mp.loaded() answers
\*   loading : mapLoading
\*   passes, listeners : as the variables
\* ------------------------------------------------------------------------
SelAll == [all |-> TRUE, day |-> JNum(0)]
SelDay(d) == [all |-> FALSE, day |-> d]

\* a === b for numbers
NumEq(a, b) == ~a.nan /\ ~b.nan /\ a.n = b.n /\ a.more = b.more

\* lines 37-38, in fine units
initialCoordinates == <<10827720, 1405830>>
initialZoom == 5

FlyTo(center, zoom) == [op |-> "flyTo", center |-> center, zoom |-> zoom]
FitBounds(b, padding, maxZoom) ==
    [op |-> "fitBounds", bounds |-> b, padding |-> padding, maxZoom |-> maxZoom]

\* sources and layers of the base style, which no pass may remove
BaseSource == <<"c", "o", "m", "p", "o", "s", "i", "t", "e">>
BaseLayer == <<"l", "a", "n", "d">>

OutlinePrefix == <<"o", "u", "t", "l", "i", "n", "e", "-">>

\* a faulty variant: a key made of the name alone
NameOnlyId(p0, idx0) == OutlinePrefix \o slug(p0.name)

\* line 599
SrcId(p0, idx0) ==
    OutlinePrefix \o JsString(Coalesce(p0.day, JNum(0))) \o <<"-">> \o NatToStr(idx0)
        \o <<"-">> \o slug(p0.name)

FillId(srcId) == srcId \o <<"-", "f", "i", "l", "l">>
LineId(srcId) == srcId \o <<"-", "l", "i", "n", "e">>

\* lines 479-484
ActivePoints(pts, sel) ==
    IF sel.all
    THEN IF Len(pts) = 1 THEN pts
         ELSE IF Len(pts) = 0 THEN <<>>
         ELSE SelectSeq(pts, LAMBDA p : NumEq(p.day, pts[1].day))
    ELSE SelectSeq(pts, LAMBDA p : NumEq(p.day, sel.day))

\* lines 24-33
DEFAULT_PALETTE ==
    <<"#ff4d4f", "#ff7a45", "#f59e0b", "#10b981", "#06b6d4", "#3b82f6", "#8b5cf6", "#ec4899">>

\* a faulty variant: the colour of the first destination for all
FirstColour(idx0) == DEFAULT_PALETTE[1]

\* lines 509-511 and 598: DEFAULT_PALETTE[idx % DEFAULT_PALETTE.length]
PaletteAt(idx0) == DEFAULT_PALETTE[(idx0 % Len(DEFAULT_PALETTE)) + 1]

\* lines 128-151
clearOutlineLayers(w) ==
    LET keepL == {l \in w.layers : ~StartsAt(l, OutlinePrefix, 1)}
        keepS == {s \in DOMAIN w.sources : ~StartsAt(s, OutlinePrefix, 1)}
    IN  [w EXCEPT !.layers = keepL,
                  !.paint = [l \in DOMAIN @ \cap keepL |-> @[l]],
                  !.sources = [s \in keepS |-> w.sources[s]],
                  !.loaded = @ /\ keepL = w.layers /\ keepS = DOMAIN w.sources]

\* lines 153-156
clearMarkers(ms) == <<>>

\* mapboxgl.LngLat accepts the position given at line 516
ValidLngLat(ll) == ll.lat >= 0 - 90 * Scale /\ ll.lat <= 90 * Scale

\* mp.addSource / setData, lines 615-619 and 673-677
SetSource(w, id, data) ==
    [w EXCEPT !.sources = (id :> data) @@ @, !.loaded = FALSE]

\* LngLatBounds.extend with a box; NoBox is the null combinedBounds
Extend(cb, b) ==
    IF cb = NoBox THEN b
    ELSE <<Min2(cb[1], b[1]), Min2(cb[2], b[2]), Max2(cb[3], b[3]), Max2(cb[4], b[4])>>

\* lines 726-728
Finally(w) == [w EXCEPT !.loading = FALSE]

NewPass(active) ==
    [pts |-> active, sel |-> SelAll, idx |-> 1, pc |-> "run", combined |-> NoBox,
     first |-> JUndef, asked |-> {}, overlapped |-> FALSE, cachedAtIssue |-> FALSE, caught |-> 0, cause |-> "none"]

InFlight(ps) == ps.pc \in {"search", "details"}

\* a throw leaves updateMapView through finally
Fail(w, ps, cause) ==
    [w |-> Finally(w), ps |-> [ps EXCEPT !.pc = "failed", !.cause = cause]]

\* lines 158-166
fitToPoints(pts, padding, maxZoom) ==
    FitBounds(Eager1(BoxOf, {<<pts[i].lng.n, pts[i].lat.n>> : i \in 1..Len(pts)}),
              padding, maxZoom)

\* lines 716-728
FlyToPoint(ll) == FlyTo(<<ll.lng * Fine, ll.lat * Fine>>, 16)

\* a faulty variant: the view is always centred on the first destination
FlyFirst(ps) == FlyToPoint(LngLat(ps.pts[1]))

ViewFor(ps) ==
    IF ps.combined # NoBox THEN FitBounds(ps.combined, 60, 17)
    ELSE IF Len(ps.pts) = 1 THEN FlyToPoint(LngLat(ps.pts[1]))
    ELSE fitToPoints(ps.pts, 80, 16)

Finish(w, ps) ==
    [w  |-> Finally([w EXCEPT !.viewport = ViewFor(ps), !.loaded = FALSE]),
     ps |-> [ps EXCEPT !.pc = "done"]]

\* the circle radius of line 672 and the delta of line 696, in fine units
CircleRadius == 2000
Delta == (8 * Scale * Fine) \div (10 * 10 * 10)

\* lines 515-518
WithMarker(w, p0, ll, idx0) ==
    [w EXCEPT !.markers = Append(@, [lng |-> ll.lng, lat |-> ll.lat,
                                     title |-> p0.name, border |-> PaletteAt(idx0),
                                     onMap |-> TRUE])]

\* line 600
WithOutline(w, srcId, geometry) ==
    [w EXCEPT !.outlines = (srcId :> geometry) @@ @]

\* a faulty variant: the source is set and no layer is added
SourceOnly(w, srcId, data, ids, color) == SetSource(w, srcId, data)

\* lines 615-648 and 673-693
WithSource(w, srcId, data, ids, color) ==
    [SetSource(w, srcId, data) EXCEPT
        !.layers = @ \cup ids,
        !.paint = [l \in ids \ DOMAIN @ |-> color] @@ @]

\* lines 650-669
OutlineBox(b, ll) ==
    IF b # NoBox THEN expandBBox(b, 6)
    ELSE <<ll.lng * Fine, ll.lat * Fine, ll.lng * Fine, ll.lat * Fine>>

\* lines 696-703
CircleBox(ll) ==
    expandBBox(<<ll.lng * Fine - Delta, ll.lat * Fine - Delta,
                 ll.lng * Fine + Delta, ll.lat * Fine + Delta>>, 4)

Advance(ps, box) ==
    [ps EXCEPT !.idx = @ + 1, !.pc = "run", !.combined = Extend(@, box)]

\* a faulty variant: the loop moves on while the lookup is awaited
MoveOnWhileWaiting(ps, cached) ==
    [ps EXCEPT !.pc = "search", !.idx = @ + 1, !.asked = @ \cup {ps.idx},
               !.cachedAtIssue = @ \/ cached]

Suspend(ps, cached) ==
    [ps EXCEPT !.pc = "search", !.asked = @ \cup {ps.idx}, !.cachedAtIssue = @ \/ cached]

RECURSIVE Loop(_, _), Iterate(_, _), Visit(_, _, _, _, _), Render(_, _, _, _),
          Draw(_, _, _, _, _, _)
\* lines 498-596: the for loop from destination ps.idx up to the next await
Loop(w, ps) == Eager2(Iterate, w, ps)

Iterate(w, ps) ==
    LET go(ll, geometry) == Visit(w, ps, ps.pts[ps.idx], ll, geometry)
    IN  IF ps.idx > Len(ps.pts) THEN Finish(w, ps)
        ELSE Eager2(go, LngLat(ps.pts[ps.idx]),
                    EmbeddedGeometry(ps.pts[ps.idx].geojson))

\* lines 499-596 for the destination p0
Visit(w, ps, p0, ll, geometry) ==
    IF ~ValidLngLat(ll) THEN Fail(w, ps, "marker")
    ELSE IF geometry # GNull
         THEN Render(WithMarker(w, p0, ll, ps.idx - 1), ps, geometry, FALSE)
    ELSE [w  |-> WithMarker(w, p0, ll, ps.idx - 1),
          ps |-> Suspend(ps, SrcId(p0, ps.idx - 1) \in DOMAIN w.outlines)]

\* lines 598-714: the destination ps.idx once its geometry is known; boom
\* tells whether the engine throws (it can once it has been removed)
Render(w, ps, geometry, boom) ==
    LET go(a, k) == Draw(a, k.ps, k.geometry, boom, k.ll, k.srcId)
    IN  Eager2(go, WithOutline(w, SrcId(ps.pts[ps.idx], ps.idx - 1), geometry),
               [ps |-> ps, geometry |-> geometry,
                ll |-> LngLat(ps.pts[ps.idx]),
                srcId |-> SrcId(ps.pts[ps.idx], ps.idx - 1)])

\* lines 602-714
Draw(w, ps, geometry, boom, ll, srcId) ==
    LET box(b) == OutlineBox(b, ll)
    IN  IF boom THEN Fail(w, ps, "engine")
        ELSE IF geometry.type \in LineTypes
        THEN Loop(WithSource(w, srcId, FeatureOf(geometry), {FillId(srcId), LineId(srcId)},
                             PaletteAt(ps.idx - 1)),
                  Advance(ps, Eager1(box, geometryBBox(geometry))))
        ELSE Loop(WithSource(w, srcId, makeCircle(ll.lng, ll.lat, CircleRadius),
                             {LineId(srcId)}, PaletteAt(ps.idx - 1)),
                  Advance(ps, CircleBox(ll)))

\* a pass joins the passes; it and the passes in flight at its start overlap
Joined(earlier, ps) ==
    LET busy == \E i \in 1..Len(earlier) : InFlight(earlier[i])
    IN  [i \in 1..Len(earlier) |->
            IF InFlight(earlier[i]) THEN [earlier[i] EXCEPT !.overlapped = TRUE]
            ELSE earlier[i]]
        \o <<[ps EXCEPT !.overlapped = busy]>>

\* lines 475-729, from the call up to the first await
Started(w, x) == [x.w EXCEPT !.passes = Joined(w.passes, x.ps)]

\* a faulty variant: the pass starts without clearing the map
NotCleared(w) == [w EXCEPT !.loading = TRUE]

Cleared(w) ==
    [clearOutlineLayers([w EXCEPT !.loading = TRUE]) EXCEPT !.markers = clearMarkers(@)]

\* lines 489-492
EarlyReturn(w) ==
    [w  |-> Finally([w EXCEPT !.viewport = FlyTo(initialCoordinates, initialZoom),
                              !.loaded = FALSE]),
     ps |-> [NewPass(<<>>) EXCEPT !.pc = "done"]]

Begin(w, active) ==
    IF active = <<>> THEN EarlyReturn(Cleared(w)) ELSE Loop(Cleared(w), NewPass(active))

StartOn(w, active) == Eager2(Started, w, Begin(w, active))

\* the pass keeps the selectedDay of the render whose effect called it
WithSelection(w, sel) == [w EXCEPT !.passes[Len(w.passes)].sel = sel]

updateMapView(w, cl) ==
    Eager2(WithSelection, Eager2(StartOn, w, ActivePoints(cl.pts, cl.sel)), cl.sel)

\* lines 471-474 and 731-737: the update effect for the closure cl
UpdateEffect(w, cl) ==
    IF ~w.loaded THEN [w EXCEPT !.listeners = Append(@, cl)]
    ELSE updateMapView(w, cl)

\* the "load" event calls every listener registered with once
RECURSIVE FireAll(_, _, _)
FireAll(w, ls, i) ==
    IF i > Len(ls) THEN w ELSE FireAll(updateMapView(w, ls[i]), ls, i + 1)

\* a pass in flight resumes with the resolver's answer r
PutPass(w, i, x) == [x.w EXCEPT !.passes = [w.passes EXCEPT ![i] = x.ps]]

Put(w, i, x) ==
    LET go(a, b) == PutPass(a, i, b)
    IN  Eager2(go, w, x)

Caught(ps, r, c) == [ps EXCEPT !.caught = IF r.k = "throw" /\ c.k # "throw" THEN 1 ELSE @]

\* a faulty variant: the pass is given up when its call returns
GiveUp(w, i, ps, c, boom) ==
    [w EXCEPT !.passes = [w.passes EXCEPT ![i] = [ps EXCEPT !.pc = "done"]]]

Continue(w, i, ps, c, boom) ==
    IF c.k = "throw" THEN Put(w, i, Fail(w, ps, "resolver"))
    ELSE IF c.k = "details"
         THEN [w EXCEPT !.passes = [w.passes EXCEPT
                                       ![i] = [ps EXCEPT !.pc = "details", !.first = c.first]]]
    ELSE Put(w, i, Render(w, [ps EXCEPT !.first = JUndef], c.g, boom))

Settle(w, i, r, boom) ==
    LET go(ps, c) == Continue(w, i, ps, c, boom)
    IN  Eager2(go, Caught(w.passes[i], r, Catch(r)), Catch(r))

Resume(w, i, r, boom) ==
    LET go(a, b) == Settle(a, i, b, boom)
    IN  Eager2(go, w, r)

\* ------------------------------------------------------------------------
\* Destinations handed to MapView
\* ------------------------------------------------------------------------
Dest(day, name, lat, lng, geojson) ==
    [day |-> JNum(day * Scale), name |-> name, lat |-> JNum(lat * Scale),
     lng |-> JNum(lng * Scale), desc |-> <<>>, source |-> JUndef, budget |-> JUndef,
     geojson |-> geojson]

HaNoi == <<"H", "a", " ", "N", "o", "i">>
Hue == <<"H", "u", "e">>
Sapa == <<"S", "a", "p", "a">>

PolyE == [type |-> "Polygon",
          coords |-> <<<<107 * Scale, 16 * Scale>>, <<107 * Scale + 500, 16 * Scale>>,
                       <<107 * Scale, 16 * Scale + 500>>, <<107 * Scale, 16 * Scale>>>>]

\* one place: the selection becomes "all"
SinglePlace == <<Dest(1, HaNoi, 21, 105, JUndef)>>

\* two destinations on day 1 (one carrying its outline) and one on day 2
Trip == <<Dest(1, HaNoi, 21, 105, JUndef), Dest(1, Hue, 16, 107, PolyE),
          Dest(2, Sapa, 22, 103, JUndef)>>

\* day 3 starts with an outline and ends with a latitude no engine accepts
BadTrip == <<Dest(3, Hue, 16, 107, FeatureOf(PolyE)), Dest(3, Sapa, 122, 103, JUndef)>>

\* three destinations with the name of the single place, two on day 4 and
\* one on day 5, each carrying an outline of its own
Twins == <<Dest(4, HaNoi, 16, 107, PolyE), Dest(4, HaNoi, 16, 107, PolyD),
           Dest(5, HaNoi, 21, 105, PolyS)>>

PointLists == {SinglePlace, Trip, BadTrip, Twins}

\* one place that carries a Point
Solo == <<Dest(7, Hue, 16, 107, PointG)>>

\* a collection whose second feature is the first with an outline
Collection == [type |-> "FeatureCollection",
               features |-> <<FeatureOf(PointG), FeatureOf(PolyD), FeatureOf(PolyS)>>]

\* two destinations of one day: the first carries a collection, the second
\* carries nothing
Tour == <<Dest(6, Hue, 16, 107, Collection), Dest(6, Sapa, 22, 103, JUndef)>>

\* no destination at all
NoPlaces == <<>>

\* one place with the day and the name of Solo's, elsewhere and without
\* geometry of its own
Namesake == <<Dest(7, Hue, 10, 106, JUndef)>>

\* the lists of a second page
\* one destination more than the palette has colours, all of one day and
\* each with geometry of its own: a Point first, outlines after it
Circuit ==
    [i \in 1..(Len(DEFAULT_PALETTE) + 1) |->
        Dest(8, Hue, 16, 107, IF i = 1 THEN PointG ELSE PolyE)]

OtherLists == {Solo, Tour, NoPlaces, Namesake, Circuit}

\* ------------------------------------------------------------------------
\* MapView: state and actions
\* ------------------------------------------------------------------------
\* the state a pass works on, as one record
World ==
    [markers |-> markers, sources |-> sources, layers |-> layers, paint |-> paint,
     outlines |-> outlinesRef,
     viewport |-> viewport, loaded |-> engineLoaded, loading |-> mapLoading,
     passes |-> passes, listeners |-> listeners]

Commit(w) ==
    /\ markers' = w.markers
    /\ sources' = w.sources
    /\ layers' = w.layers
    /\ paint' = w.paint
    /\ outlinesRef' = w.outlines
    /\ viewport' = w.viewport
    /\ engineLoaded' = w.loaded
    /\ mapLoading' = w.loading
    /\ passes' = w.passes
    /\ listeners' = w.listeners

\* the update effects run so far
Effects == Len(passes) + Len(listeners)

\* after the first render and its effects (lines 57-59, 62, 75-105, 471-740,
\* 789-798): the map is created but not loaded, and the update effect has
\* registered its pass for the "load" event
MapInit ==
    /\ points = <<>>
    /\ selectedDay = SelAll
    /\ mapLoading = FALSE
    /\ engineLoaded = FALSE
    /\ loadFired = FALSE
    /\ removed = FALSE
    /\ listeners = <<[pts |-> <<>>, sel |-> SelAll]>>
    /\ passes = <<>>
    /\ markers = <<>>
    /\ sources = [s \in {BaseSource} |-> "vector"]
    /\ layers = {BaseLayer}
    /\ paint = <<>>
    /\ outlinesRef = <<>>
    /\ viewport = [op |-> "init", center |-> initialCoordinates, zoom |-> initialZoom]
    /\ effectPending = FALSE

\* HomePage renders MapView with a new list: the update effect runs with
\* the selection of that render, then the selection effect (lines 789-798)
ReceivePoints(pl) ==
    /\ ~removed /\ ~effectPending
    /\ Effects < MaxPasses
    /\ points' = pl
    /\ \E w \in {UpdateEffect(World, [pts |-> pl, sel |-> selectedDay])} : Commit(w)
    /\ LET sel == IF Len(pl) = 0 THEN selectedDay
                  ELSE IF Len(pl) = 1 THEN SelAll ELSE SelDay(pl[1].day)
       IN  /\ selectedDay' = sel
           /\ effectPending' = (sel # selectedDay)
    /\ UNCHANGED <<loadFired, removed>>
    /\ UNCHANGED notMapVars

\* the render that follows setSelectedDay of the selection effect
RunUpdateEffect ==
    /\ ~removed /\ effectPending
    /\ Effects < MaxPasses
    /\ \E w \in {UpdateEffect(World, [pts |-> points, sel |-> selectedDay])} : Commit(w)
    /\ effectPending' = FALSE
    /\ UNCHANGED <<points, selectedDay, loadFired, removed>>
    /\ UNCHANGED notMapVars

\* the days shown as tabs (lines 65-73, 801, 841, 864)
DayKeys == {points[i].day : i \in 1..Len(points)}

\* a click on a day button (lines 841 and 864) and the render it causes
SelectDay(d) ==
    /\ ~removed /\ ~effectPending
    /\ Effects < MaxPasses
    /\ d \in DayKeys
    /\ SelDay(d) # selectedDay
    /\ selectedDay' = SelDay(d)
    /\ \E w \in {UpdateEffect(World, [pts |-> points, sel |-> SelDay(d)])} : Commit(w)
    /\ UNCHANGED <<points, loadFired, removed, effectPending>>
    /\ UNCHANGED notMapVars

\* lines 747-787: the camera request of zoomToPlace(p, preferIdx)
ZoomBox(geom, ll) ==
    IF geom # GNull /\ geometryBBox(geom) # NoBox THEN expandBBox(geometryBBox(geom), 6)
    ELSE CircleBox(ll)

CachedOutline(cache, srcId) == IF srcId \in DOMAIN cache THEN cache[srcId] ELSE GNull

zoomToPlace(cache, p, idx0) ==
    FitBounds(ZoomBox(CachedOutline(cache, SrcId(p, idx0)), LngLat(p)), 60, 17)

\* lines 872-877: the destinations listed under the tabs
FirstDay(ds) == CHOOSE d \in ds : \A e \in ds : d.n <= e.n

ListedPlaces ==
    IF Len(points) = 1 THEN points
    ELSE IF Len(points) = 0 THEN <<>>
    ELSE SelectSeq(points, LAMBDA p : p.day = (IF selectedDay.all THEN FirstDay(DayKeys)
                                                ELSE selectedDay.day))

\* a click on "Zoom" (line 835) or on a listed destination (lines 884-886)
ZoomToPlace(i) ==
    /\ ~removed
    /\ i \in 1..Len(ListedPlaces)
    /\ viewport' = zoomToPlace(outlinesRef, ListedPlaces[i], i - 1)
    /\ engineLoaded' = FALSE
    /\ UNCHANGED <<points, selectedDay, mapLoading, loadFired, removed, listeners, passes,
                   markers, sources, layers, paint, outlinesRef, effectPending>>
    /\ UNCHANGED notMapVars

\* the engine fires "load" (lines 732-734)
EngineLoad ==
    /\ ~removed /\ ~loadFired
    /\ loadFired' = TRUE
    /\ \E w \in {FireAll([World EXCEPT !.loaded = TRUE, !.listeners = <<>>], listeners, 1)} :
           Commit(w)
    /\ UNCHANGED <<points, selectedDay, removed, effectPending>>
    /\ UNCHANGED notMapVars

\* the engine has loaded what the last changes asked for: mp.loaded() is
\* true again; no event of the code's listeners fires
EngineIdle ==
    /\ ~removed /\ loadFired /\ ~engineLoaded
    /\ engineLoaded' = TRUE
    /\ UNCHANGED <<points, selectedDay, mapLoading, loadFired, removed, listeners, passes,
                   markers, sources, layers, paint, outlinesRef, viewport, effectPending>>
    /\ UNCHANGED notMapVars

\* an engine call on a removed map may throw
Booms == IF removed THEN BOOLEAN ELSE {FALSE}

\* the search call of pass i settles (lines 265-367)
SearchResponds(i, out, boom) ==
    /\ i \in 1..Len(passes)
    /\ passes[i].pc = "search"
    /\ UNCHANGED <<points, selectedDay, loadFired, removed, effectPending>>
    /\ UNCHANGED notMapVars
    /\ \E w \in {Resume(World, i, SearchStep(out), boom)} : Commit(w)

\* the details call of pass i settles (lines 349-397)
DetailsResponds(i, out, boom) ==
    /\ i \in 1..Len(passes)
    /\ passes[i].pc = "details"
    /\ UNCHANGED <<points, selectedDay, loadFired, removed, effectPending>>
    /\ UNCHANGED notMapVars
    /\ \E w \in {Resume(World, i, DetailsStep(passes[i].first, out), boom)} : Commit(w)

\* the component unmounts (lines 91-103 and 742-745)
Teardown ==
    /\ ~removed
    /\ removed' = TRUE
    /\ markers' = [i \in 1..Len(markers) |-> [markers[i] EXCEPT !.onMap = FALSE]]
    /\ mapLoading' = FALSE
    /\ UNCHANGED <<points, selectedDay, engineLoaded, loadFired, listeners, passes,
                   sources, layers, paint, outlinesRef, viewport, effectPending>>
    /\ UNCHANGED notMapVars

\* ------------------------------------------------------------------------
\* Specifications
\* ------------------------------------------------------------------------
\* the extractor at rest: nothing has been asked
ExtractIdle ==
    /\ rawText = <<>>
    /\ jsonData = JsNull
    /\ cleanedText = <<>>
    /\ fencedMatches = <<>>
    /\ candidates = <<>>
    /\ winner = NoWinner
    /\ xpc = "done"

\* no function has been called
NoCall ==
    /\ fnName = "none"
    /\ fnArg = JUndef
    /\ fnRes = JUndef

\* ------------------------------------------------------------------------
\* Arguments of the functions called on their own
\* ------------------------------------------------------------------------
TextChars == {"1", "0", ".", ",", "-", "a", " "}

ShortTexts == UNION {[1..k -> TextChars] : k \in 0..MaxChars}

\* 90.0001
JustAbove90 == [JNum(90 * Scale) EXCEPT !.more = <<"1">>]

\* the raw values toNumber is called with
RawValues ==
    {JNull, JUndef, JNaN, JNum(0), JNum(21 * Scale), JNum(0 - 5 * Scale), JustAbove90}
    \cup {JStr(s) : s \in ShortTexts \cup {Txt10c5, Txt1234c56, TxtAbc}}

Degrees == {0 - 100, 0 - 91, 0 - 90, 0 - 21, 0, 5, 6, 21, 30, 31, 90, 91, 94, 95, 110, 120, 121}

\* the values of the lat and lng fields normalizeLatLng is called with
CoordVals ==
    {JNum(d * Scale) : d \in Degrees}
    \cup {JNum(90 * Scale + 1), JustAbove90, JNum(29 * Scale + 999), JNull, JUndef,
          JStr(Txt10c5), JStr(TxtAbc), JStr(<<"1", "1", "0">>)}

CoordPairs == [lat : CoordVals, lng : CoordVals]

\* part_001 lines 50-60 called with v
CallToNumber(v) ==
    /\ fnName = "none"
    /\ fnName' = "toNumber"
    /\ fnArg' = v
    /\ fnRes' = toNumber(v)
    /\ UNCHANGED notFnVars

\* MapView.tsx lines 168-229 called with p
CallNormalizeLatLng(p) ==
    /\ fnName = "none"
    /\ fnName' = "normalizeLatLng"
    /\ fnArg' = p
    /\ fnRes' = normalizeLatLng(p)
    /\ UNCHANGED notFnVars

\* part_001 lines 47-147 run on jsonData = j: fnRes is the array points
CallNormalize(j) ==
    /\ fnName = "none"
    /\ fnName' = "points"
    /\ fnArg' = j
    /\ fnRes' = Normalize(j)
    /\ UNCHANGED notFnVars

\* a result whose bounding box has no area
ResFlat == Result(GNull, JUndef, JArr(<<JStr(<<"2", "1">>), JStr(<<"2", "1">>),
                                        JStr(<<"1", "0", "5">>), JStr(<<"1", "0", "6">>)>>),
                  JUndef, JUndef)

\* the search results the candidate is chosen from
ResultPool == {ResPoly, ResNode, ResBox, ResSmall, ResBare, ResFlat}

ResultLists == UNION {[1..n -> ResultPool] : n \in 0..MaxResults}

\* lines 283-325 on one list of results
CallChooseCandidate(rs) ==
    /\ fnName = "none"
    /\ fnName' = "candidate"
    /\ fnArg' = JArr(rs)
    /\ fnRes' = ChooseCandidate(rs)
    /\ UNCHANGED notFnVars

CallStart == NoCall /\ ExtractIdle /\ ChatInit /\ MapInit /\ offered = PointLists

CallNext ==
    \/ \E v \in RawValues : CallToNumber(v)
    \/ \E p \in CoordPairs : CallNormalizeLatLng(p)
    \/ \E j \in Payloads : CallNormalize(j)
    \/ \E rs \in ResultLists : CallChooseCandidate(rs)

\* one call of toNumber, of normalizeLatLng or of the normalizer on one argument
CallSpec == CallStart /\ [][CallNext]_vars

\* askJourneyBot on one reply text
ExtractNext == ExtractFenced \/ ExtractBalanced

\* a reply text has arrived; the components are as after their first render
ExtractStart == ExtractInit /\ ChatInit /\ MapInit /\ NoCall /\ offered = PointLists

ExtractSpec == ExtractStart /\ [][ExtractNext]_vars

\* the chat box over a sequence of requests
ChatNext ==
    \/ \E text \in Prompts : HandleSendStart(text)
    \/ \E reply \in Replies, json \in Payloads : HandleSendReply(reply, json)
    \/ \E msg \in ErrorTexts : HandleSendError(msg)

\* the page after its first render
ChatStart == ChatInit /\ ExtractIdle /\ MapInit /\ NoCall /\ offered = PointLists

ChatSpec == ChatStart /\ [][ChatNext]_vars

\* MapView from its first render to its unmounting
Init == MapInit /\ ExtractIdle /\ ChatInit /\ NoCall /\ offered = PointLists

Next ==
    \/ \E pl \in offered : ReceivePoints(pl)
    \/ RunUpdateEffect
    \/ \E d \in DayKeys : SelectDay(d)
    \/ \E i \in 1..MaxListed : ZoomToPlace(i)
    \/ EngineLoad
    \/ EngineIdle
    \/ \E i \in 1..MaxPasses, out \in SearchOutcomes, boom \in Booms : SearchResponds(i, out, boom)
    \/ \E i \in 1..MaxPasses, out \in DetailsOutcomes, boom \in Booms : DetailsResponds(i, out, boom)
    \/ Teardown

Spec == Init /\ [][Next]_vars

\* a geocoding call that is awaited resolves or rejects
Respond ==
    \E i \in 1..MaxPasses, boom \in Booms :
        \/ \E out \in SearchOutcomes : SearchResponds(i, out, boom)
        \/ \E out \in DetailsOutcomes : DetailsResponds(i, out, boom)

\* every geocoding call that is awaited eventually resolves or rejects
NetworkSettles == WF_vars(Respond)

LiveSpec == Init /\ [][Next]_vars /\ NetworkSettles

\* MapView on a page that hands it the other lists
OtherStart == MapInit /\ ExtractIdle /\ ChatInit /\ NoCall /\ offered = OtherLists

OtherSpec == OtherStart /\ [][Next]_vars

\* ------------------------------------------------------------------------
\* Claims about the Extractor
\* ------------------------------------------------------------------------
ParsingFenced ==
    {i \in 1..Len(fencedMatches) : tryParse(Trim(fencedMatches[i].block)).ok}

LastParsingFenced == CHOOSE i \in ParsingFenced : \A j \in ParsingFenced : j <= i

\* C3: when the text holds several fenced blocks, the payload returned is
\* the parse of the last block in document order that parses; an earlier
\* block is never returned when a later block parses.
C3_LastParsingFenceWins ==
    (xpc = "done" /\ Len(fencedMatches) >= 2 /\ ParsingFenced # {})
        => jsonData = tryParse(Trim(fencedMatches[LastParsingFenced].block)).v

Inside(c, d) == c # d /\ d.start <= c.start /\ c.end <= d.end

CandidateSet == {candidates[k] : k \in 1..Len(candidates)}

\* C4: in the bare-bracket fallback no collected candidate lies inside
\* another candidate, and the payload returned is the parse of a top-level
\* region, never of a region nested in a collected one.
C4_OnlyTopLevelRegions ==
    xpc = "done" =>
        /\ \A c \in CandidateSet : \A d \in CandidateSet : ~Inside(c, d)
        /\ winner.kind = "bare" =>
               \A d \in CandidateSet :
                   ~Inside([start |-> winner.start, end |-> winner.end], d)

\* C5: when a block wins, cleanedText is the raw text with exactly the
\* winning block's own span removed, then trimmed.
C5_WinnerSpanRemoved ==
    (xpc = "done" /\ winner.kind # "none")
        => cleanedText = Trim(RemoveSpan(rawText, winner.start, winner.end))

\* C6: whenever the payload returned is null, the text returned is the
\* original raw text unchanged.
C6_NullPayloadKeepsText ==
    (xpc = "done" /\ jsonData = JsNull) => cleanedText = rawText

\* position p lies inside a quoted string of the region that opens at a: an
\* odd number of quotes that are not escaped stand between the two
InQuotes(text, a, p) ==
    Cardinality({k \in (a + 1)..(p - 1) : text[k] = "\"" /\ ~isEscaped(text, k)}) % 2 = 1

\* C19: the bare-bracket scan takes brackets inside a quoted string as
\* literal, a quote after an odd number of backslashes not ending the string:
\* no collected region opens at a bracket that lies inside a quoted string of
\* another collected region, and the texts {"a": "}"} and {"a":"\"}"} each
\* yield exactly one region, the whole text.
C19_BracketsInStringsAreLiteral ==
    (xpc = "done" /\ winner.kind # "fenced")
    => /\ \A c \in CandidateSet : \A d \in CandidateSet :
             (c.start < d.start /\ d.start < c.end) => ~InQuotes(rawText, c.start, d.start)
       /\ rawText \in {BraceStr, EscStr}
          => candidates = <<[start |-> 1, end |-> Len(rawText) + 1]>>

\* ------------------------------------------------------------------------
\* Claims about the Normalizer
\* ------------------------------------------------------------------------
Between(v, lo, hi) == ~v.nan /\ AtLeast(v, lo) /\ AtMost(v, hi)

\* C10: every destination record handed to setMapData has lat within
\* [-90, 90], lng within [-180, 180] and day >= 1, whatever the payload.
C10_EmittedPointsInRange ==
    \A i \in 1..Len(mapData) :
        /\ Between(mapData[i].lat, 0 - 90, 90)
        /\ Between(mapData[i].lng, 0 - 180, 180)
        /\ ~mapData[i].day.nan /\ mapData[i].day.n >= Scale

\* ------------------------------------------------------------------------
\* Claims about MapView
\* ------------------------------------------------------------------------
LastPass == passes[Len(passes)]

OutlineSources == {s \in DOMAIN sources : StartsAt(s, OutlinePrefix, 1)}

PassSrcIds(ps) == {SrcId(ps.pts[i], i - 1) : i \in 1..Len(ps.pts)}

MarkerOf(p, ll, idx0) ==
    [lng |-> ll.lng, lat |-> ll.lat, title |-> p.name, border |-> PaletteAt(idx0),
     onMap |-> TRUE]

\* the latest pass ran from start to finish, alone, on an engine still there
RanAlone ==
    /\ passes # <<>>
    /\ ~removed
    /\ LastPass.pc = "done"
    /\ ~LastPass.overlapped

\* C1: when a pass has run from start to finish with no other pass
\* overlapping it and no failure, the map holds exactly one marker and exactly
\* one outline source per destination of the active subset, and nothing of
\* any earlier pass.
C1_ExactlyTheActiveSubset ==
    RanAlone =>
        /\ markers = [i \in 1..Len(LastPass.pts) |->
                         MarkerOf(LastPass.pts[i], LngLat(LastPass.pts[i]), i - 1)]
        /\ OutlineSources = PassSrcIds(LastPass)
        /\ Cardinality(OutlineSources) = Len(LastPass.pts)

\* C1 witness: a pass over two destinations has run alone right after a pass
\* that had drawn destinations of its own
C1_TwoMarkersAfterEarlierPass ==
    /\ RanAlone
    /\ Len(LastPass.pts) = 2
    /\ Len(passes) >= 2
    /\ passes[Len(passes) - 1].pc = "done"
    /\ passes[Len(passes) - 1].pts # <<>>

\* C2: no pass issues a geocoding lookup for a cache key whose result (a
\* geometry or null) has already been written.
C2_NoLookupForCachedKey ==
    \A i \in 1..Len(passes) : ~passes[i].cachedAtIssue

\* C7: whatever the search call and the details call answer, the resolver
\* returns a geometry or null: no pass is aborted by the resolver.
C7_ResolverNeverAborts ==
    \A i \in 1..Len(passes) : passes[i].cause # "resolver"

\* C7 witness: a call of the resolver failed and the pass went on to its end
C7_FailureDegradedToNull ==
    \E i \in 1..Len(passes) :
        /\ passes[i].caught = 1
        /\ passes[i].pc = "done"
        /\ \E s \in DOMAIN outlinesRef : outlinesRef[s] = GNull

Settled == \A i \in 1..Len(passes) : ~InFlight(passes[i])

\* the only pass in flight has run alone so far
AloneInFlight ==
    /\ passes # <<>>
    /\ ~removed
    /\ InFlight(LastPass)
    /\ ~LastPass.overlapped

\* C8: busy is true while a pass runs alone, false once no pass is in
\* flight (after the last step, the early return, a throw or the teardown),
\* and every pass in flight eventually finishes when the network settles.
C8_BusyFollowsThePasses ==
    /\ [](AloneInFlight => mapLoading)
    /\ [](Settled => ~mapLoading)
    /\ ~Settled ~> Settled

\* C8 witness: passes have ended by the early return and by a throw, none is
\* in flight and busy is false
C8_IdleAfterThrowAndEarlyReturn ==
    /\ Settled
    /\ ~mapLoading
    /\ ~removed
    /\ \E i \in 1..Len(passes) : passes[i].pc = "failed"
    /\ \E i \in 1..Len(passes) : passes[i].pc = "done" /\ passes[i].pts = <<>>

\* C9: a pass requested while the engine reports not ready is deferred, not
\* dropped: as long as it waits, the "load" notification that runs it is
\* still to come.
C9_DeferredPassIsNotDropped ==
    listeners # <<>> => ~loadFired

\* the destination carries a geometry of type Polygon
EmbeddedPolygon(p) == "type" \in DOMAIN p.geojson /\ p.geojson.type = "Polygon"

\* C14: a destination carrying an embedded Polygon is never the one a pass
\* awaits a geocoding call (search or details) for, and once a pass has gone
\* past it the cache entry of its key is that geometry itself and, for the
\* latest pass, the source drawn for it is the Feature wrapping that geometry.
C14_EmbeddedPolygonUsedAsIs ==
    /\ \A i \in 1..Len(passes) :
          InFlight(passes[i]) => ~EmbeddedPolygon(passes[i].pts[passes[i].idx])
    /\ \A i \in 1..Len(passes) : \A j \in 1..(passes[i].idx - 1) :
          EmbeddedPolygon(passes[i].pts[j])
          => /\ SrcId(passes[i].pts[j], j - 1) \in DOMAIN outlinesRef
             /\ outlinesRef[SrcId(passes[i].pts[j], j - 1)] = passes[i].pts[j].geojson
    /\ passes # <<>>
       => \A j \in 1..(LastPass.idx - 1) :
            EmbeddedPolygon(LastPass.pts[j])
            => /\ SrcId(LastPass.pts[j], j - 1) \in DOMAIN sources
               /\ sources[SrcId(LastPass.pts[j], j - 1)] = FeatureOf(LastPass.pts[j].geojson)

\* C14 witness: a pass has drawn and cached the embedded Polygon of a
\* destination and has run to its end
C14_EmbeddedPolygonDrawn ==
    /\ passes # <<>>
    /\ LastPass.pc = "done"
    /\ \E j \in 1..Len(LastPass.pts) :
          /\ LastPass.pts[j].geojson = PolyE
          /\ sources[SrcId(LastPass.pts[j], j - 1)] = FeatureOf(PolyE)
          /\ outlinesRef[SrcId(LastPass.pts[j], j - 1)] = PolyE

\* the index of pts[i] among the destinations of its day, from 0
WithinDay(pts, i) == Cardinality({j \in 1..(i - 1) : pts[j].day = pts[i].day})

\* the destination carries a geometry object of its own
OwnOutline(p) == "coords" \in DOMAIN p.geojson

\* what zoomToPlace fits the view to when it retrieves the geometry g
ZoomFit(g) == FitBounds(expandBBox(geometryBBox(g), 6), 60, 17)

\* same-named destinations on different days or at different indexes of a
\* day have different keys
KeysApart ==
    \A i, j \in 1..Len(points) :
        (/\ points[i].name = points[j].name
         /\ \/ points[i].day # points[j].day
            \/ WithinDay(points, i) # WithinDay(points, j))
        => SrcId(points[i], WithinDay(points, i)) # SrcId(points[j], WithinDay(points, j))

\* under its render key the cache holds, for every destination a pass has
\* gone past, the geometry of that destination
RenderKeyHoldsOwn ==
    \A i \in 1..Len(passes) : \A j \in 1..(passes[i].idx - 1) :
        OwnOutline(passes[i].pts[j])
        => /\ SrcId(passes[i].pts[j], j - 1) \in DOMAIN outlinesRef
           /\ outlinesRef[SrcId(passes[i].pts[j], j - 1)] = passes[i].pts[j].geojson

\* a click on a listed destination that has been rendered fits the view to
\* the geometry of that destination
ZoomRetrievesOwn ==
    \A i \in 1..Len(ListedPlaces) :
        (/\ ZoomToPlace(i)
         /\ OwnOutline(ListedPlaces[i])
         /\ SrcId(ListedPlaces[i], i - 1) \in DOMAIN outlinesRef)
        => viewport' = ZoomFit(ListedPlaces[i].geojson)

\* C15: destinations of one name on different days, or at different indexes
\* of a day, have distinct cache keys, and once rendered the geometry found
\* under the render key and the one zoomToPlace retrieves are the
\* destination's own, never the other's.
C15_SameNameKeysDoNotCollide ==
    /\ [](KeysApart /\ RenderKeyHoldsOwn)
    /\ [][ZoomRetrievesOwn]_vars

\* C15 witness: a destination of day 1 and two destinations of day 4, all of
\* one name, have been rendered; the cache holds three entries for them, the
\* two of day 4 each with its own geometry, and a click on the second of day
\* 4 has fitted the view to the geometry of the second
C15_TwinsCachedAndZoomed ==
    /\ points = Twins
    /\ SrcId(SinglePlace[1], 0) \in DOMAIN outlinesRef
    /\ SrcId(Twins[1], 0) \in DOMAIN outlinesRef
    /\ SrcId(Twins[2], 1) \in DOMAIN outlinesRef
    /\ outlinesRef[SrcId(SinglePlace[1], 0)] \notin {PolyE, PolyD}
    /\ outlinesRef[SrcId(Twins[1], 0)] = PolyE
    /\ outlinesRef[SrcId(Twins[2], 1)] = PolyD
    /\ viewport = ZoomFit(PolyD)

\* pass i reaches its end in this step, and no later pass does
Finishes(i) ==
    /\ i <= Len(passes')
    /\ passes'[i].pc = "done"
    /\ i > Len(passes) \/ passes[i].pc # "done"

LastFinisher(i) == Finishes(i) /\ \A k \in (i + 1)..MaxPasses : ~Finishes(k)

\* the direct centre and zoom on a destination
CentreOn(p) == FlyTo(<<LngLat(p).lng * Fine, LngLat(p).lat * Fine>>, 16)

\* the three-way decision of the claim
Decision(ps) ==
    IF ps.combined # NoBox THEN FitBounds(ps.combined, 60, 17)
    ELSE IF Len(ps.pts) = 1 THEN CentreOn(ps.pts[1])
    ELSE fitToPoints(ps.pts, 80, 16)

\* C16 as stated, its last sentence: a pass over exactly one destination ends
\* with the direct centre and zoom on it.
C16_SingleDestinationEndsCentred ==
    [][\A i \in 1..MaxPasses :
          (LastFinisher(i) /\ Len(passes'[i].pts) = 1)
          => viewport' = CentreOn(passes'[i].pts[1])]_vars

\* C16 amended: a pass over destinations ends with the fit to the combined
\* bound if one was accumulated, else with the direct centre and zoom if
\* exactly one destination is active, else with the fit to the raw points;
\* a pass over exactly one destination has accumulated a bound, ends with the
\* combined-bound fit and, run alone, leaves exactly one marker.
C16_ViewportDecision ==
    [][\A i \in 1..MaxPasses :
          (LastFinisher(i) /\ passes'[i].pts # <<>>)
          => /\ viewport' = Decision(passes'[i])
             /\ Len(passes'[i].pts) = 1
                => /\ passes'[i].combined # NoBox
                   /\ viewport' = FitBounds(passes'[i].combined, 60, 17)
                   /\ (~passes'[i].overlapped /\ ~removed') => Len(markers') = 1]_vars

\* C16 witness: the day of a single destination has been selected, the pass
\* for it has run alone to its end, one marker is on the map and the view is
\* fitted to the bound accumulated for that destination
C16_SingleDayFitted ==
    /\ RanAlone
    /\ ~selectedDay.all
    /\ Len(LastPass.pts) = 1
    /\ Len(markers) = 1
    /\ LastPass.combined # NoBox
    /\ viewport = FitBounds(LastPass.combined, 60, 17)

\* the box b lies within the box c (both in fine units)
Covers(c, b) == c[1] <= b[1] /\ c[2] <= b[2] /\ b[3] <= c[3] /\ b[4] <= c[4]

\* the marker position of a destination as a box of no extent
MarkerBox(p) ==
    <<LngLat(p).lng * Fine, LngLat(p).lat * Fine, LngLat(p).lng * Fine, LngLat(p).lat * Fine>>

\* C17: when a pass over destinations has run alone to its end, the combined
\* bound it fitted the view to contains the marker position of every active
\* destination and the bounding box of every geometry it rendered.
C17_CombinedBoundCoversAll ==
    (RanAlone /\ LastPass.pts # <<>>)
    => /\ LastPass.combined # NoBox
       /\ \A j \in 1..Len(LastPass.pts) :
             /\ Covers(LastPass.combined, MarkerBox(LastPass.pts[j]))
             /\ LET g == outlinesRef[SrcId(LastPass.pts[j], j - 1)]
                IN  (g.type \in LineTypes /\ geometryBBox(g) # NoBox)
                    => Covers(LastPass.combined, geometryBBox(g))

\* pass i is not cut short in this step: it keeps waiting where it is, goes
\* from the search to the details call of the same destination, moves on to
\* a later destination, ends past its last destination, or is left by a throw
\* of the marker or of the engine
KeepsGoing(i) ==
    \/ passes'[i] = passes[i]
    \/ passes'[i] = [passes[i] EXCEPT !.overlapped = TRUE]
    \/ /\ passes'[i].pc = "details" /\ passes[i].pc = "search"
       /\ passes'[i].idx = passes[i].idx
    \/ passes'[i].pc \in {"search", "details"} /\ passes'[i].idx > passes[i].idx
    \/ passes'[i].pc = "done" /\ passes'[i].idx = Len(passes[i].pts) + 1
    \/ passes'[i].pc = "failed" /\ passes'[i].cause \in {"marker", "engine"}

\* a pass that has ended has gone through all of its destinations
EndedPassesAreComplete ==
    \A i \in 1..Len(passes) :
        passes[i].pc = "done"
        => /\ passes[i].idx = Len(passes[i].pts) + 1
           /\ \A j \in 1..Len(passes[i].pts) :
                 SrcId(passes[i].pts[j], j - 1) \in DOMAIN outlinesRef

\* C22: no pass is cancelled: whatever list changes, selections and later
\* passes occur while a pass is in flight, every step leaves it waiting or
\* carries it on, and a pass that ends has processed all of its destinations.
C22_NoCancellation ==
    /\ []EndedPassesAreComplete
    /\ [][\A i \in 1..Len(passes) : InFlight(passes[i]) => KeepsGoing(i)]_vars

\* C22 witness: the latest pass, which cleared the map and drew its two
\* destinations without waiting, has ended; the pass before it has ended too,
\* and the outline of its destination is on the map and the view is fitted
\* to its bound: the earlier pass applied its results after the later one
C22_StaleResultsOnTheMap ==
    /\ Len(passes) >= 2
    /\ ~removed
    /\ LastPass.pc = "done"
    /\ Len(LastPass.pts) = 2
    /\ \A j \in 1..2 : OwnOutline(LastPass.pts[j])
    /\ passes[Len(passes) - 1].pc = "done"
    /\ passes[Len(passes) - 1].pts = SinglePlace
    /\ SrcId(SinglePlace[1], 0) \in DOMAIN sources
    /\ viewport = FitBounds(passes[Len(passes) - 1].combined, 60, 17)
    /\ Len(markers) = 2

\* C23: when the list is replaced, the pass started for the new list filters
\* it by the selection that the selection effect derives from the new list
\* ("all" for a single point, otherwise the day of the first point), never by
\* the selection left from the previous list.
C23_NewListRendersWithItsOwnSelection ==
    [][(points' # points /\ Len(passes') > Len(passes))
       => /\ passes'[Len(passes')].sel = selectedDay'
          /\ passes'[Len(passes')].pts = ActivePoints(points', selectedDay')]_vars

\* C24: while the view is mounted, busy is true whenever at least one pass
\* is in flight, also when passes overlap and an earlier one has finished.
C24_BusyWhileAnyPassInFlight ==
    (~removed /\ ~Settled) => mapLoading

\* C25: the boundary cache only grows and each key is written once: in every
\* step a key that is present stays present and keeps the value (a geometry
\* or null) of its first write.
C25_CacheIsWriteOnce ==
    [][\A k \in DOMAIN outlinesRef :
          k \in DOMAIN outlinesRef' /\ outlinesRef'[k] = outlinesRef[k]]_vars

\* the latest pass is in flight, no pass overlaps it, the engine is there
WaitsAlone(i) ==
    /\ i = Len(passes)
    /\ ~passes[i].overlapped
    /\ ~removed

C27_OneRequestOutstanding ==
    Cardinality({i \in 1..Len(passes) : InFlight(passes[i])}) <= 1

\* the polygons a details lookup can deliver
DetailsPolygons ==
    {g \in UNION {{o.geojson, o.polygon_geojson} : o \in {x \in DetailsOutcomes : x.k = "body"}} :
        IsPolygon(g)}

\* the resolution stored for the destination pass i is working on
StoredFor(i) == outlinesRef'[SrcId(passes[i].pts[passes[i].idx], passes[i].idx - 1)]

\* C28: when the chosen candidate has a bounding box of four values and the
\* details lookup ends, however it ends (also by a network error), the
\* resolver returns the polygon the details delivered or else the rectangle
\* of the bounding box, never null.
C28_BoxFallbackWhateverDetailsDo ==
    [][\A i \in 1..Len(passes) :
          (passes[i].pc = "details" /\ passes'[i].pc # "details"
              /\ HasBox(passes[i].first))
          => \/ StoredFor(i) \in DetailsPolygons
             \/ StoredFor(i) = BoxPolygon(BoxVals(passes[i].first))]_vars

\* what an embedded container holds: the geometry of a single Feature, the
\* geometry of the first polygon or line feature of a FeatureCollection
Unwrapped(gj) ==
    IF "type" \notin DOMAIN gj THEN GNull
    ELSE IF gj.type = "Feature" THEN gj.geometry
    ELSE IF gj.type = "FeatureCollection" /\ FindLineFeature(gj.features) > 0
         THEN gj.features[FindLineFeature(gj.features)].geometry
    ELSE GNull

\* C29: for every destination a pass has gone past whose record embeds a
\* Feature or a FeatureCollection holding a polygon or a line, the geometry
\* stored for it is the inner geometry, and (when no other pass interferes)
\* the source drawn for it is that shape, not the circle.
C29_ContainersAreUnwrapped ==
    \A i \in 1..Len(passes) : \A j \in 1..(passes[i].idx - 1) :
        LET p == passes[i].pts[j]
            k == SrcId(p, j - 1)
            inner == Unwrapped(p.geojson)
        IN  (inner # GNull /\ inner.type \in LineTypes)
            => /\ k \in DOMAIN outlinesRef
               /\ outlinesRef[k] = inner
               /\ WaitsAlone(i) => (k \in DOMAIN sources /\ sources[k] = FeatureOf(inner))

\* the record embeds an outline: a polygon or a line, as it is or in a container
EmbedsOutline(gj) ==
    \/ "type" \in DOMAIN gj /\ gj.type \in LineTypes
    \/ Unwrapped(gj) # GNull /\ Unwrapped(gj).type \in LineTypes

\* the destinations pass ps has reached
Reached(ps) == {j \in 1..Len(ps.pts) : j < ps.idx \/ (j = ps.idx /\ InFlight(ps))}

\* C30: a pass issues the geocoding search for a destination exactly when
\* the record embeds no polygon, multipolygon, line or multiline; an embedded
\* geometry of another type, such as a Point, does not stop the search.
C30_SearchExactlyWithoutOutline ==
    \A i \in 1..Len(passes) : \A j \in Reached(passes[i]) :
        (j \in passes[i].asked) <=> ~EmbedsOutline(passes[i].pts[j].geojson)

\* the outline layers drawn from the source k
LayersOf(k) == layers \cap {FillId(k), LineId(k)}

\* destination j of pass ps has the one outline its resolution asks for
OneOutline(ps, j) ==
    LET p == ps.pts[j]
        k == SrcId(p, j - 1)
        g == outlinesRef[k]
    IN  /\ k \in DOMAIN sources
        /\ IF g.type \in LineTypes
           THEN sources[k] = FeatureOf(g) /\ LayersOf(k) = {FillId(k), LineId(k)}
           ELSE /\ sources[k] = makeCircle(LngLat(p).lng, LngLat(p).lat, CircleRadius)
                /\ LayersOf(k) = {LineId(k)}

\* C32: every destination a pass has processed has a resolution stored and,
\* on a map no other pass draws on, exactly one outline: a fill and a line
\* layer over the geometry when it is a polygon or a line, otherwise one
\* line layer over the circle around the destination's position.
C32_OneOutlinePerDestination ==
    \A i \in 1..Len(passes) : \A j \in 1..(passes[i].idx - 1) :
        /\ SrcId(passes[i].pts[j], j - 1) \in DOMAIN outlinesRef
        /\ WaitsAlone(i) => OneOutline(passes[i], j)

\* C32 witness: a pass alone on the map has ended with a circle for its
\* first destination, which resolved to null, and a filled outline for its
\* second
C32_CircleAndFilledOutline ==
    /\ RanAlone
    /\ Len(LastPass.pts) = 2
    /\ outlinesRef[SrcId(LastPass.pts[1], 0)] = GNull
    /\ LayersOf(SrcId(LastPass.pts[1], 0)) = {LineId(SrcId(LastPass.pts[1], 0))}
    /\ FillId(SrcId(LastPass.pts[2], 1)) \in layers

\* C37: the marker of the i-th active destination of a pass (counted from 0)
\* has the border colour DEFAULT_PALETTE[i mod 8], and every layer of its
\* outline (fill and line, or the line of the fallback circle) has the same
\* colour, whatever the resolution gave and whenever it arrived
C37_ColourByIndexInThePass ==
    \A i \in 1..Len(passes) : \A j \in 1..(passes[i].idx - 1) :
        LET k == SrcId(passes[i].pts[j], j - 1)
            c == DEFAULT_PALETTE[((j - 1) % 8) + 1]
        IN  /\ \A l \in LayersOf(k) : l \in DOMAIN paint /\ paint[l] = c
            /\ WaitsAlone(i) =>
                  /\ LayersOf(k) # {}
                  /\ j <= Len(markers)
                  /\ markers[j].border = c

\* C37 witness: a pass alone on the map has ended after nine destinations;
\* the ninth has the marker and the filled outline in the colour of the
\* first, whose outline is the fallback circle
C37_NinthWrapsToTheFirstColour ==
    /\ RanAlone
    /\ Len(LastPass.pts) = Len(DEFAULT_PALETTE) + 1
    /\ Len(markers) = Len(LastPass.pts)
    /\ markers[Len(markers)].border = DEFAULT_PALETTE[1]
    /\ markers[2].border = DEFAULT_PALETTE[2]
    /\ paint[FillId(SrcId(LastPass.pts[Len(markers)], Len(markers) - 1))] = DEFAULT_PALETTE[1]
    /\ LayersOf(SrcId(LastPass.pts[1], 0)) = {LineId(SrcId(LastPass.pts[1], 0))}
    /\ paint[LineId(SrcId(LastPass.pts[1], 0))] = DEFAULT_PALETTE[1]

\* this step starts one pass, whose active subset is empty
StartsEmptyPass ==
    /\ Len(passes') = Len(passes) + 1
    /\ passes'[Len(passes')].pts = <<>>

\* the passes there were are left as they are, up to the mark of overlap
OthersUntouched ==
    \A i \in 1..Len(passes) :
        passes'[i] \in {passes[i], [passes[i] EXCEPT !.overlapped = TRUE]}

\* C33: a pass whose active subset is empty removes every marker and every
\* outline source and layer, asks for the default view and ends: it places
\* no marker, adds no source or layer, issues no lookup and leaves the
\* boundary cache as it is.
C33_EmptySubsetOnlyClears ==
    [][StartsEmptyPass
       => /\ markers' = <<>>
          /\ DOMAIN sources' = {BaseSource}
          /\ layers' = {BaseLayer}
          /\ viewport' = FlyTo(initialCoordinates, initialZoom)
          /\ outlinesRef' = outlinesRef
          /\ passes'[Len(passes')].pc = "done"
          /\ passes'[Len(passes')].asked = {}
          /\ OthersUntouched]_vars

\* C33 witness: a pass over no destination has ended after a pass that had
\* drawn one; the map is empty, the view is the default one and the cache
\* still holds what the earlier pass resolved
C33_ClearedAfterADrawnPass ==
    /\ Len(passes) >= 2
    /\ ~removed
    /\ LastPass.pts = <<>>
    /\ LastPass.pc = "done"
    /\ passes[Len(passes) - 1].pts = Solo
    /\ passes[Len(passes) - 1].pc = "done"
    /\ markers = <<>>
    /\ OutlineSources = {}
    /\ viewport = FlyTo(initialCoordinates, initialZoom)
    /\ SrcId(Solo[1], 0) \in DOMAIN outlinesRef

\* zoomToPlace(p, i - 1) finds a geometry with a bound in the cache
FitsToCached(p, i) ==
    LET g == CachedOutline(outlinesRef, SrcId(p, i - 1))
    IN  g # GNull /\ geometryBBox(g) # NoBox

\* a pass over the current list has resolved p, its destination number i
ResolvedInCurrentList(p, i) ==
    \E q \in 1..Len(passes) :
        /\ passes[q].pts = ActivePoints(points, passes[q].sel)
        /\ i <= Len(passes[q].pts)
        /\ passes[q].pts[i] = p
        /\ passes[q].idx > i

\* C36: a click on a listed destination fits the view to a cached geometry
\* only if a pass over the current list has resolved that destination; a
\* geometry left by an earlier list or by another destination is never used.
C36_ZoomUsesOnlyOwnGeometry ==
    [][\A i \in 1..Len(ListedPlaces) :
          (ZoomToPlace(i) /\ FitsToCached(ListedPlaces[i], i))
          => ResolvedInCurrentList(ListedPlaces[i], i)]_vars

\* ------------------------------------------------------------------------
\* Claims about ChatBox (ChatSpec)
\* ------------------------------------------------------------------------
\* the request of the turn in progress fails in this step: an error is
\* surfaced while the chat is loading
RequestFails == chatLoading /\ chatError' # JNull

\* C18: in the step in which the request fails, the transcript, which ends
\* with the user's message, gains exactly one assistant entry carrying the
\* message of the error, that message is the error shown, the destination
\* list stays as it was and loading returns to false.
C18_FailureIsReportedAndContained ==
    [][RequestFails
       => /\ messages # <<>>
          /\ messages[Len(messages)].role = "user"
          /\ chatError'.t = "str"
          /\ messages' = Append(messages, [role |-> "assistant",
                                           content |-> ErrorPrefix \o chatError'.s])
          /\ mapData' = mapData
          /\ chatLoading' = FALSE]_vars

\* C18 witness: after a turn that produced destinations, the request of the
\* next turn has failed: the transcript ends with the user's message and the
\* error entry, the destinations are still there and loading is false
C18_FailedAfterSuccess ==
    /\ chatError = JStr(<<"E">>)
    /\ ~chatLoading
    /\ mapData # <<>>
    /\ Len(messages) = 4
    /\ messages[3].role = "user"
    /\ messages[4] = [role |-> "assistant", content |-> ErrorPrefix \o <<"E">>]

\* this step is the arrival of a reply (no error is set by it)
ReplyArrives == chatLoading /\ ~chatLoading' /\ chatError' = chatError

\* C34: the destination list is replaced only by a reply that normalizes to
\* at least one destination: after a reply whose payload is null or yields no
\* destination the list is the one before, and in either case the reply's
\* text is appended to the transcript as the assistant's message.
C34_ListReplacedOnlyByDestinations ==
    [][/\ ReplyArrives
          => /\ \E r \in Replies :
                   messages' = Append(messages, [role |-> "assistant", content |-> r])
             /\ IF Normalize(replyJson') = <<>> THEN mapData' = mapData
                ELSE mapData' = Normalize(replyJson')
       /\ ~ReplyArrives => mapData' = mapData]_vars

\* C34 witness: a second reply has arrived without payload; its text is in
\* the transcript and the list is still the one of the first reply
C34_MissKeepsTheList ==
    /\ turns = 2
    /\ ~chatLoading
    /\ replyJson = JNull
    /\ mapData # <<>>
    /\ Len(messages) = 4
    /\ messages[4].role = "assistant"
    /\ messages[4].content \in Replies

\* ------------------------------------------------------------------------
\* Claims about the functions called on their own (CallSpec)
\* ------------------------------------------------------------------------
IsFiniteNumber(v) == v.t = "num" /\ ~v.nan

\* the magnitude rule and the band rule, read off the two coerced fields
MagnitudeRule(la, lo) == Above(MathAbs(la), 90) /\ AtMost(MathAbs(lo), 90)

BandRule(la, lo) ==
    /\ AtLeast(lo, 6) /\ AtMost(lo, 30)
    /\ AtLeast(la, 95) /\ AtMost(la, 120)

\* C11: for every pair of coerced (numeric) fields with |lat| > 90 and
\* |lng| <= 90, normalizeLatLng returns the two fields exchanged; for a pair
\* matching neither the magnitude rule nor the band rule it returns them as
\* they were.
C11_SwapHeuristic ==
    (fnName = "normalizeLatLng" /\ IsFiniteNumber(fnArg.lat) /\ IsFiniteNumber(fnArg.lng))
    => /\ MagnitudeRule(fnArg.lat, fnArg.lng)
          => fnRes = [lat |-> fnArg.lng, lng |-> fnArg.lat]
       /\ (~MagnitudeRule(fnArg.lat, fnArg.lng) /\ ~BandRule(fnArg.lat, fnArg.lng))
          => fnRes = [lat |-> fnArg.lat, lng |-> fnArg.lng]

\* C11 witness: lat = 110, lng = 21 has come back as lat = 21, lng = 110
C11_Swapped110And21 ==
    /\ fnName = "normalizeLatLng"
    /\ fnArg = [lat |-> JNum(110 * Scale), lng |-> JNum(21 * Scale)]
    /\ fnRes = [lat |-> JNum(21 * Scale), lng |-> JNum(110 * Scale)]

\* 1.23456
Num1p23456 == [JNum(Scale + 234) EXCEPT !.more = <<"5", "6">>]

\* C12 as stated: toNumber("1.234,56") returns 1.234.
C12_Returns1p234 ==
    (fnName = "toNumber" /\ fnArg = JStr(Txt1234c56)) => fnRes = JNum(Scale + 234)

\* C12 amended: toNumber("1.234,56") returns 1.23456, the text with its comma
\* removed and its dot kept as the decimal point.
C12_Returns1p23456 ==
    (fnName = "toNumber" /\ fnArg = JStr(Txt1234c56)) => fnRes = Num1p23456

\* C12 witness: toNumber has been called with "1.234,56"
C12_CalledWithDotAndComma ==
    /\ fnName = "toNumber"
    /\ fnArg = JStr(Txt1234c56)
    /\ fnRes.t = "num"

NoDigit(s) == \A i \in 1..Len(s) : s[i] \notin Digits

\* C13: toNumber returns a number for every raw value, NaN only when it is
\* handed NaN itself, and 0 for null, for undefined and for a text without
\* any digit.
C13_ToNumberIsTotal ==
    fnName = "toNumber"
    => /\ fnRes.t = "num"
       /\ fnRes.nan => fnArg = JNaN
       /\ fnArg \in {JNull, JUndef} => fnRes = JNum(0)
       /\ (fnArg.t = "str" /\ NoDigit(fnArg.s)) => fnRes = JNum(0)

\* C13 witness: "abc" has been coerced to 0
C13_AbcIsZero ==
    /\ fnName = "toNumber"
    /\ fnArg = JStr(TxtAbc)
    /\ fnRes = JNum(0)

\* a day object of an Itinerary: {day: number, destinations: [...]}
IsDayObject(d) ==
    /\ d.t = "obj"
    /\ HasKey(d, "day") /\ Get(d, "day").t = "num"
    /\ Get(d, "destinations").t = "arr"

IsItinerary(j) == j.t = "arr" /\ j.a # <<>> /\ \A i \in 1..Len(j.a) : IsDayObject(j.a[i])

\* a flat list of place records, none of them keyed by day
IsPlaceList(j) ==
    j.t = "arr" /\ \A i \in 1..Len(j.a) : j.a[i].t = "obj" /\ ~HasKey(j.a[i], "day")

IsSinglePlace(j) == j.t = "obj"

\* the day numbers of the day objects, each repeated once for every place
\* record the day object holds
RECURSIVE ItineraryDays(_)
ItineraryDays(arr) ==
    IF arr = <<>> THEN <<>>
    ELSE LET records == SelectSeq(Get(arr[1], "destinations").a, LAMBDA d : d.t = "obj")
         IN  [k \in 1..Len(records) |-> Get(arr[1], "day")] \o ItineraryDays(Tail(arr))

\* C20: every record normalized from a PlaceList or a SinglePlace payload has
\* day 1; the records normalized from an Itinerary payload carry, in order,
\* the day number of the day object each of them comes from.
C20_DayAssignment ==
    fnName = "points"
    => /\ (IsPlaceList(fnArg) \/ IsSinglePlace(fnArg))
          => \A i \in 1..Len(fnRes) : fnRes[i].day = JNum(Scale)
       /\ IsItinerary(fnArg)
          => [i \in 1..Len(fnRes) |-> fnRes[i].day] = ItineraryDays(fnArg.a)

\* C20 witness: an itinerary of two places on day 1, one on day 2 and none on
\* day 3 has given three records with the days 1, 1 and 2
C20_ThreeDayItinerary ==
    /\ fnName = "points"
    /\ fnArg = JArr(<<Day1, Day2, Day3>>)
    /\ [i \in 1..Len(fnRes) |-> fnRes[i].day] = <<JNum(Scale), JNum(Scale), JNum(2 * Scale)>>

\* the names of the place records of the day objects, in payload order
RECURSIVE ItineraryNames(_)
ItineraryNames(arr) ==
    IF arr = <<>> THEN <<>>
    ELSE LET records == SelectSeq(Get(arr[1], "destinations").a, LAMBDA d : d.t = "obj")
         IN  [k \in 1..Len(records) |-> Get(records[k], "name").s] \o ItineraryNames(Tail(arr))

\* equal entries of ds stand next to one another
Contiguous(ds) ==
    \A i, j, k \in 1..Len(ds) : (i < k /\ k < j /\ ds[i] = ds[j]) => ds[k] = ds[i]

\* C21: the records normalized from an Itinerary payload stand in payload
\* order (day objects in order, destinations of a day in insertion order) and
\* all records of one day number are contiguous in the list.
C21_OrderedAndGroupedByDay ==
    (fnName = "points" /\ IsItinerary(fnArg))
    => /\ [i \in 1..Len(fnRes) |-> fnRes[i].name] = ItineraryNames(fnArg.a)
       /\ Contiguous([i \in 1..Len(fnRes) |-> fnRes[i].day])

\* ------------------------------------------------------------------------
\* Claims about the choice of the candidate (CallSpec)
\* ------------------------------------------------------------------------
HasPolygon(r) == IsPolygon(r.geojson)

AreaLike(r) == r.class.t # "undef" /\ JsString(r.class) \in Preferred

\* the area of the bounding box of r, 0 without a box of four values
Area(r) == IF HasBox(r) THEN BoxArea(r) ELSE 0

\* C31: the candidate chosen among the results carries a polygon when a
\* result does; otherwise it has an area-like class when a result has one;
\* otherwise it is the result with the largest bounding-box area, and the
\* first result when no result has a positive area.
C31_CandidateChoice ==
    (fnName = "candidate" /\ fnArg.a # <<>>)
    => LET rs == fnArg.a
           all == {rs[i] : i \in 1..Len(rs)}
       IN  /\ fnRes \in all
           /\ (\E r \in all : HasPolygon(r)) => HasPolygon(fnRes)
           /\ (~(\E r \in all : HasPolygon(r)) /\ (\E r \in all : AreaLike(r)))
                 => AreaLike(fnRes)
           /\ ~(\E r \in all : HasPolygon(r) \/ AreaLike(r))
                 => IF \E r \in all : Area(r) > 0
                    THEN \A r \in all : Area(fnRes) >= Area(r)
                    ELSE fnRes = rs[1]

\* C31 witness: without polygon and without area-like class, the second
\* result is chosen for its larger bounding box
C31_LargerBoxChosen ==
    /\ fnName = "candidate"
    /\ fnArg = JArr(<<ResSmall, ResBox, ResFlat>>)
    /\ fnRes = ResBox

\* ------------------------------------------------------------------------
\* Claims about normalizeLatLng on the records of the Normalizer (CallSpec)
\* ------------------------------------------------------------------------
\* C35: for every record the Normalizer emits, normalizeLatLng returns the
\* record's own lat and lng, so the marker stands where the list says.
C35_RenderTimeNormalizationChangesNothing ==
    fnName = "points"
    => \A i \in 1..Len(fnRes) :
          normalizeLatLng(fnRes[i]) = [lat |-> fnRes[i].lat, lng |-> fnRes[i].lng]

\* ------------------------------------------------------------------------
\* Claims about the swap heuristic (CallSpec)
\* ------------------------------------------------------------------------
\* the two fields of the argument as normalizeLatLng parses them
ParsedLat == ParseCoord(fnArg.lat)
ParsedLng == ParseCoord(fnArg.lng)

\* C38: for every pair of parsed fields, if the band condition holds (lng in
\* [6, 30] and lat in [95, 120]) the magnitude condition (|lat| > 90 and
\* |lng| <= 90) holds too, and normalizeLatLng never takes the band branch.
C38_BandBranchNeverTaken ==
    fnName = "normalizeLatLng"
    => /\ (~ParsedLat.nan /\ ~ParsedLng.nan /\ BandRule(ParsedLat, ParsedLng))
          => MagnitudeRule(ParsedLat, ParsedLng)
       /\ SwapBranch(ParsedLat, ParsedLng) # "band"

\* C38 witness: lat = 95, lng = 30, the corner of the two bands, was
\* exchanged by the magnitude branch
C38_BandCornerTakenByMagnitude ==
    /\ fnName = "normalizeLatLng"
    /\ fnArg = [lat |-> JNum(95 * Scale), lng |-> JNum(30 * Scale)]
    /\ BandRule(ParsedLat, ParsedLng)
    /\ SwapBranch(ParsedLat, ParsedLng) = "magnitude"
    /\ fnRes = [lat |-> JNum(30 * Scale), lng |-> JNum(95 * Scale)]

====
